---- MODULE Spec2Model ----
(***************************************************************************)
(* Model of the SQLite persistence layer of OWUI_DXMatrix_Edition/backend: *)
(* database.py (class Database: sessions, cache, settings, expiry sweep,   *)
(* statistics) and session_manager.py (class WindowsSessionManager).       *)
(*                                                                         *)
(* Time is an integer clock `now` (one reading of datetime.now()); a table *)
(* is a function from the primary keys present to rows; JSON text is a     *)
(* tagged tree that json_dumps builds and json_loads reads back.           *)
(***************************************************************************)
EXTENDS Integers, Sequences, FiniteSets, TLC

VARIABLES
    now,        \* the clock: what datetime.now() reads
    sessions,   \* table sessions: session_id -> row
    cache,      \* table cache: key -> row
    settings,   \* table settings: key -> row
    ret,        \* the last call: its name, arguments and return value
    lastSaved,  \* history: session_id -> the data of its last successful save
    hits,       \* history: key -> the get_cache hits since its last set_cache
    workload,   \* which callers run: the ids, keys and values they pass
    pc,         \* worker thread -> where it stands in the call it is making
    job,        \* worker thread -> the locals of the call it is making
    local,      \* thread -> its self._local.connection (0: no such attribute)
    owner,      \* connection -> the thread that opened it
    opened,     \* the connections that are open
    used,       \* history: <<connection, thread>>, the thread has used it
    dbInstance, \* _db_instance (0: None)
    dbLock,     \* the thread that holds _db_lock, or None
    constructed, \* history: how often Database.__init__ has run
    managers,   \* the WindowsSessionManager objects built, each with its
                \* stop event and its cleanup thread
    sessionManager, \* _session_manager (0: None)
    caller,     \* the shutdown a caller is inside of, waiting in join
    schema,     \* the tables the database file holds
    users,      \* table users: user_id -> row
    lastSetting, \* history: key -> the value of its last successful set_setting
    deleted,    \* history: the session ids whose delete_session returned true
                \* and that no save_session or create_session wrote since
    updates,    \* history: session_id -> the items its successful
                \* update_session calls have merged in since its last delete
    writer      \* the thread whose connection holds the database file's write
                \* lock inside an open transaction, or None

threadVars == <<pc, job>>

connVars == <<local, owner, opened, used>>

singletonVars == <<dbInstance, dbLock, constructed>>

storeVars == <<now, sessions, cache, settings, lastSaved, hits>>

sweeperVars == <<managers, sessionManager, caller>>

historyVars == <<deleted, updates>>

moreVars == <<schema, users, lastSetting, historyVars>>

concurrency == <<threadVars, connVars, singletonVars, sweeperVars>>

vars == <<storeVars, ret, workload, concurrency, moreVars, writer>>

----------------------------------------------------------------------------
(* Bounds of the model                                                     *)

MaxTime == 2

MaxCount == 2

----------------------------------------------------------------------------
(* Optional values: Python None / SQL NULL is the empty tuple              *)

None == <<>>

Some(x) == <<x>>

----------------------------------------------------------------------------
(* Python values, as tagged tuples                                         *)

PyNone == <<"None">>

PyBool(b) == <<"bool", b>>

PyInt(n) == <<"int", n>>

PyStr(s) == <<"str", s>>

PyList(xs) == <<"list", xs>>

PyTuple(xs) == <<"tuple", xs>>

PySet(xs) == <<"set", xs>>

PyDict(items) == <<"dict", items>>

PyTrue == PyBool(TRUE)

PyFalse == PyBool(FALSE)

(* d[k] = v on a dict given as its sequence of <<key, value>> items: an    *)
(* existing key keeps its position and takes the new value                 *)
DictSetItem(items, k, v) ==
    IF \E i \in 1..Len(items) : items[i][1] = k
    THEN [i \in 1..Len(items) |-> IF items[i][1] = k THEN <<k, v>> ELSE items[i]]
    ELSE Append(items, <<k, v>>)

RECURSIVE DictFromPairs(_)
DictFromPairs(pairs) ==
    IF pairs = <<>> THEN <<>>
    ELSE LET n == Len(pairs)
         IN DictSetItem(DictFromPairs(SubSeq(pairs, 1, n - 1)), pairs[n][1], pairs[n][2])

(* d.get(k, default)                                                       *)
DictGet(d, k, default) ==
    IF \E i \in 1..Len(d[2]) : d[2][i][1] = k
    THEN d[2][CHOOSE i \in 1..Len(d[2]) : d[2][i][1] = k][2]
    ELSE default

(* Python truthiness, as `if value:` tests it                              *)
Truthy(v) ==
    CASE v[1] = "None" -> FALSE
      [] v[1] = "bool" -> v[2]
      [] v[1] = "int" -> v[2] # 0
      [] v[1] = "str" -> v[2] # ""
      [] OTHER -> v[2] # <<>>

----------------------------------------------------------------------------
(* json.dumps / json.loads                                                 *)

(* Whether json.dumps accepts the value (a set raises TypeError)           *)
RECURSIVE Serializable(_)
Serializable(v) ==
    CASE v[1] \in {"None", "bool", "int", "str"} -> TRUE
      [] v[1] \in {"list", "tuple"} -> \A i \in 1..Len(v[2]) : Serializable(v[2][i])
      [] v[1] = "dict" -> \A i \in 1..Len(v[2]) :
                            /\ v[2][i][1][1] \in {"str", "int"}
                            /\ Serializable(v[2][i][2])
      [] OTHER -> FALSE

(* A dict key as json.dumps writes it: always a string                     *)
JsonKey(k) == IF k[1] = "int" THEN ToString(k[2]) ELSE k[2]

(* json.dumps as lossy json.dumps(default=str)-like encoder: numbers are   *)
(* written as strings                                                      *)
RECURSIVE json_dumps_numbers_as_text(_)
json_dumps_numbers_as_text(v) ==
    CASE v[1] = "None" -> <<"null">>
      [] v[1] = "bool" -> <<"jbool", v[2]>>
      [] v[1] = "int" -> <<"jstr", ToString(v[2])>>
      [] v[1] = "str" -> <<"jstr", v[2]>>
      [] v[1] \in {"list", "tuple"} ->
            <<"jarr", [i \in 1..Len(v[2]) |-> json_dumps_numbers_as_text(v[2][i])]>>
      [] v[1] = "dict" ->
            <<"jobj", [i \in 1..Len(v[2]) |->
                         <<JsonKey(v[2][i][1]), json_dumps_numbers_as_text(v[2][i][2])>>]>>

(* The JSON text of a serializable value: lists and tuples both become     *)
(* arrays, every dict key becomes a string                                 *)
RECURSIVE json_dumps(_)
json_dumps(v) ==
    CASE v[1] = "None" -> <<"null">>
      [] v[1] = "bool" -> <<"jbool", v[2]>>
      [] v[1] = "int" -> <<"jnum", v[2]>>
      [] v[1] = "str" -> <<"jstr", v[2]>>
      [] v[1] \in {"list", "tuple"} ->
            <<"jarr", [i \in 1..Len(v[2]) |-> json_dumps(v[2][i])]>>
      [] v[1] = "dict" ->
            <<"jobj", [i \in 1..Len(v[2]) |->
                         <<JsonKey(v[2][i][1]), json_dumps(v[2][i][2])>>]>>

(* The value json.loads builds: arrays become lists, objects become dicts  *)
(* with string keys (a repeated key keeps its last value)                  *)
RECURSIVE json_loads(_)
json_loads(j) ==
    CASE j[1] = "null" -> PyNone
      [] j[1] = "jbool" -> PyBool(j[2])
      [] j[1] = "jnum" -> PyInt(j[2])
      [] j[1] = "jstr" -> PyStr(j[2])
      [] j[1] = "jarr" -> PyList([i \in 1..Len(j[2]) |-> json_loads(j[2][i])])
      [] j[1] = "jobj" ->
            PyDict(DictFromPairs([i \in 1..Len(j[2]) |->
                                    <<PyStr(j[2][i][1]), json_loads(j[2][i][2])>>]))

----------------------------------------------------------------------------
(* Timestamps and expiry                                                   *)

(* timedelta(seconds=expires_in) raises TypeError when expires_in is None  *)
TimedeltaRaises(ttl) == ttl = None

(* expires_at = datetime.now() + timedelta(seconds=expires_in)             *)
ExpiresAt(t, ttl) == Some(t + ttl[1])

(* The expiry test with >= for >: a row is still served at its deadline    *)
NotExpiredAtDeadline(expires_at, t) == expires_at = None \/ expires_at[1] >= t

(* WHERE ... (expires_at IS NULL OR expires_at > ?)                        *)
NotExpired(expires_at, t) == expires_at = None \/ expires_at[1] > t

(* DELETE ... WHERE expires_at < ?  (NULL compares as unknown: kept)       *)
(* A sweep that lets a row go only a tick after the code's sweep would     *)
SweepMatchesLate(expires_at, t) == expires_at # None /\ expires_at[1] + 1 < t

(* A sweep that takes the rows with up to a tick still to live             *)
SweepMatchesEarly(expires_at, t) == expires_at # None /\ expires_at[1] <= t + 1

SweepMatches(expires_at, t) == expires_at # None /\ expires_at[1] < t

EmptyTable == [k \in {} |-> None]

(* The tables _init_database creates                                       *)
AllTables == {"sessions", "cache", "users", "settings", "chats"}

(* DROP TABLE and CREATE TABLE: the table starts over                      *)
CreateTableAfresh(exists, tbl) == EmptyTable

(* CREATE TABLE IF NOT EXISTS: a table that exists keeps its rows          *)
CreateTableIfNotExists(exists, tbl) == IF exists THEN tbl ELSE EmptyTable

(* A table without the rows at the given keys                              *)
Without(tbl, keys) == [k \in DOMAIN tbl \ keys |-> tbl[k]]

(* INSERT OR REPLACE of one row                                            *)
Upsert(tbl, k, row) == [x \in DOMAIN tbl \cup {k} |-> IF x = k THEN row ELSE tbl[x]]

----------------------------------------------------------------------------
(* Inputs                                                                  *)

SessionIds == {"s1", "s2"}

UserIds == {"u1", "u2"}

(* {"a": 1}                                                                *)
DataPlain == PyDict(<< <<PyStr("a"), PyInt(1)>> >>)

(* {"a": [1, 2]}                                                           *)
DataList == PyDict(<< <<PyStr("a"), PyList(<<PyInt(1), PyInt(2)>>)>> >>)

(* {"a": (1, 2)}                                                           *)
DataTuple == PyDict(<< <<PyStr("a"), PyTuple(<<PyInt(1), PyInt(2)>>)>> >>)

(* {1: "x"}                                                                *)
DataIntKey == PyDict(<< <<PyInt(1), PyStr("x")>> >>)

(* {"a": {1}}: a set, which json.dumps rejects                             *)
DataSet == PyDict(<< <<PyStr("a"), PySet(<<PyInt(1)>>)>> >>)

(* {}                                                                      *)
DataEmpty == PyDict(<<>>)

(* {"b": 1}                                                                *)
DataOther == PyDict(<< <<PyStr("b"), PyInt(1)>> >>)

(* expires_in: None, or a number of ticks                                  *)
Ttls == {None, Some(1), Some(2)}

----------------------------------------------------------------------------
(* The result of the last call                                             *)

Ret(op, key, data, ttl, val, fault) ==
    [op |-> op, key |-> key, data |-> data, ttl |-> ttl, val |-> val, fault |-> fault]

----------------------------------------------------------------------------
(* Database: sessions                                                      *)

(* The row INSERT OR REPLACE INTO sessions (session_id, user_id, data,     *)
(* updated_at, expires_at) writes; created_at takes its column default     *)
SessionRow(uid, data, ttl, t) ==
    [user_id |-> uid, data |-> json_dumps(data), created_at |-> t,
     updated_at |-> t, expires_at |-> ExpiresAt(t, ttl)]

(* save_session that takes a storage error for a success                   *)
SaveSessionOkDespiteFault(data, ttl, fault) ==
    /\ ~TimedeltaRaises(ttl)
    /\ Serializable(data)

(* Whether save_session reaches its commit                                 *)
SaveSessionOk(data, ttl, fault) ==
    /\ ~TimedeltaRaises(ttl)
    /\ Serializable(data)
    /\ ~fault

(* save_session(session_id, user_id, data, expires_in)                     *)
DbSaveSession(sid, uid, data, ttl, fault) ==
    /\ IF SaveSessionOk(data, ttl, fault)
       THEN /\ sessions' = Upsert(sessions, sid, SessionRow(uid, data, ttl, now))
            /\ lastSaved' = Upsert(lastSaved, sid, data)
            /\ ret' = Ret("save_session", sid, data, ttl, PyTrue, fault)
       ELSE /\ UNCHANGED <<sessions, lastSaved>>
            /\ ret' = Ret("save_session", sid, data, ttl, PyFalse, fault)
    /\ UNCHANGED <<now, cache, settings, hits>>

(* SELECT data, expires_at FROM sessions WHERE session_id = ? AND          *)
(* (expires_at IS NULL OR expires_at > ?): whether a row comes back        *)
SessionFound(tbl, sid, t) ==
    sid \in DOMAIN tbl /\ NotExpired(tbl[sid].expires_at, t)

(* get_session without its bookkeeping UPDATE                              *)
TouchSessionSkipped(tbl, sid, t) == tbl

(* A bookkeeping UPDATE that also slides the deadline of the row           *)
TouchSessionExtending(tbl, sid, t) ==
    [tbl EXCEPT ![sid].updated_at = t, ![sid].expires_at = Some(t + 1)]

(* UPDATE sessions SET updated_at = ? WHERE session_id = ?                 *)
TouchSession(tbl, sid, t) == [tbl EXCEPT ![sid].updated_at = t]

(* What get_session returns on the table at time t                         *)
GetSessionResult(tbl, sid, t) ==
    IF SessionFound(tbl, sid, t) THEN json_loads(tbl[sid].data) ELSE PyNone

(* get_session(session_id)                                                 *)
DbGetSession(sid, fault) ==
    /\ IF ~fault /\ SessionFound(sessions, sid, now)
       THEN /\ sessions' = TouchSession(sessions, sid, now)
            /\ ret' = Ret("get_session", sid, PyNone, None,
                          GetSessionResult(sessions, sid, now), fault)
       ELSE /\ UNCHANGED sessions
            /\ ret' = Ret("get_session", sid, PyNone, None, PyNone, fault)
    /\ UNCHANGED <<now, cache, settings, lastSaved, hits>>

(* The DELETE without its WHERE clause                                     *)
SessionsAfterDeleteAll(tbl, sid) == EmptyTable

(* DELETE FROM sessions WHERE session_id = ?                               *)
SessionsAfterDelete(tbl, sid) == Without(tbl, {sid})

(* delete_session(session_id), returns cursor.rowcount > 0                 *)
DbDeleteSession(sid, fault) ==
    /\ IF fault
       THEN /\ UNCHANGED <<sessions, lastSaved>>
            /\ ret' = Ret("delete_session", sid, PyNone, None, PyFalse, fault)
       ELSE /\ sessions' = SessionsAfterDelete(sessions, sid)
            /\ lastSaved' = [k \in DOMAIN lastSaved \cap DOMAIN SessionsAfterDelete(sessions, sid) |->
                              lastSaved[k]]
            /\ ret' = Ret("delete_session", sid, PyNone, None,
                          PyBool(sid \in DOMAIN sessions), fault)
    /\ UNCHANGED <<now, cache, settings, hits>>

(* The selection without its user_id test: every user's live sessions     *)
UserSessionIdsAnyUser(tbl, uid, t) ==
    {sid \in DOMAIN tbl : NotExpired(tbl[sid].expires_at, t)}

(* The sessions get_user_sessions selects: WHERE user_id = ? AND           *)
(* (expires_at IS NULL OR expires_at > ?)                                  *)
UserSessionIds(tbl, uid, t) ==
    {sid \in DOMAIN tbl : tbl[sid].user_id = uid /\ NotExpired(tbl[sid].expires_at, t)}

(* One element of the list get_user_sessions builds                        *)
SessionRecord(tbl, sid) ==
    [session_id |-> sid, data |-> json_loads(tbl[sid].data),
     created_at |-> tbl[sid].created_at, updated_at |-> tbl[sid].updated_at,
     expires_at |-> tbl[sid].expires_at]

(* ORDER BY updated_at DESC: every order of the selected ids the clause    *)
(* allows (rows with equal updated_at come in an order SQLite chooses)     *)
UserSessionOrders(tbl, uid, t) ==
    LET S == UserSessionIds(tbl, uid, t)
        n == Cardinality(S)
    IN {q \in [1..n -> S] :
          /\ \A i, j \in 1..n : i # j => q[i] # q[j]
          /\ \A i, j \in 1..n : i < j => tbl[q[i]].updated_at >= tbl[q[j]].updated_at}

(* The lists get_user_sessions may return on the table at time t           *)
GetUserSessionsResults(tbl, uid, t) ==
    {PyList([i \in 1..Len(q) |-> SessionRecord(tbl, q[i])]) : q \in UserSessionOrders(tbl, uid, t)}

(* get_user_sessions(user_id)                                              *)
DbGetUserSessions(uid, fault) ==
    /\ IF fault
       THEN ret' = Ret("get_user_sessions", uid, PyNone, None, PyList(<<>>), fault)
       ELSE \E v \in GetUserSessionsResults(sessions, uid, now) :
               ret' = Ret("get_user_sessions", uid, PyNone, None, v, fault)
    /\ UNCHANGED <<now, sessions, cache, settings, lastSaved, hits>>

----------------------------------------------------------------------------
(* Database: cache.  A key is a sequence of characters.                    *)

(* The row INSERT OR REPLACE INTO cache (key, value, expires_at,           *)
(* last_accessed) writes; created_at and access_count take their defaults  *)
CacheRow(value, ttl, t) ==
    [value |-> json_dumps(value), created_at |-> t, expires_at |-> ExpiresAt(t, ttl),
     access_count |-> 0, last_accessed |-> t]

(* Whether set_cache reaches its commit                                    *)
SetCacheOk(value, ttl, fault) ==
    /\ ~TimedeltaRaises(ttl)
    /\ Serializable(value)
    /\ ~fault

(* set_cache(key, value, expires_in)                                       *)
DbSetCache(key, value, ttl, fault) ==
    /\ IF SetCacheOk(value, ttl, fault)
       THEN /\ cache' = Upsert(cache, key, CacheRow(value, ttl, now))
            /\ hits' = Upsert(hits, key, 0)
            /\ ret' = Ret("set_cache", key, value, ttl, PyTrue, fault)
       ELSE /\ UNCHANGED <<cache, hits>>
            /\ ret' = Ret("set_cache", key, value, ttl, PyFalse, fault)
    /\ UNCHANGED <<now, sessions, settings, lastSaved>>

(* SELECT value, expires_at FROM cache WHERE key = ? AND                   *)
(* (expires_at IS NULL OR expires_at > ?): whether a row comes back        *)
CacheFound(tbl, key, t) ==
    key \in DOMAIN tbl /\ NotExpired(tbl[key].expires_at, t)

(* The bookkeeping UPDATE without the counter                              *)
TouchCacheTimeOnly(tbl, key, t) == [tbl EXCEPT ![key].last_accessed = t]

(* UPDATE cache SET access_count = access_count + 1, last_accessed = ?     *)
(* WHERE key = ?                                                           *)
TouchCache(tbl, key, t) ==
    [tbl EXCEPT ![key].access_count = @ + 1, ![key].last_accessed = t]

(* What get_cache returns on the table at time t                           *)
GetCacheResult(tbl, key, t) ==
    IF CacheFound(tbl, key, t) THEN json_loads(tbl[key].value) ELSE PyNone

(* get_cache(key); the counter is capped at MaxCount                       *)
DbGetCache(key, fault) ==
    /\ key \in DOMAIN cache => cache[key].access_count < MaxCount
    /\ IF ~fault /\ CacheFound(cache, key, now)
       THEN /\ cache' = TouchCache(cache, key, now)
            /\ hits' = [hits EXCEPT ![key] = @ + 1]
            /\ ret' = Ret("get_cache", key, PyNone, None, GetCacheResult(cache, key, now), fault)
       ELSE /\ UNCHANGED <<cache, hits>>
            /\ ret' = Ret("get_cache", key, PyNone, None, PyNone, fault)
    /\ UNCHANGED <<now, sessions, settings, lastSaved>>

(* DELETE FROM cache WHERE key = ?                                         *)
CacheAfterDelete(tbl, key) == Without(tbl, {key})

(* delete_cache(key), returns cursor.rowcount > 0                          *)
DbDeleteCache(key, fault) ==
    /\ IF fault
       THEN /\ UNCHANGED <<cache, hits>>
            /\ ret' = Ret("delete_cache", key, PyNone, None, PyFalse, fault)
       ELSE /\ cache' = CacheAfterDelete(cache, key)
            /\ hits' = [k \in DOMAIN hits \cap DOMAIN CacheAfterDelete(cache, key) |-> hits[k]]
            /\ ret' = Ret("delete_cache", key, PyNone, None, PyBool(key \in DOMAIN cache), fault)
    /\ UNCHANGED <<now, sessions, settings, lastSaved>>

UpperCase == <<"A", "B", "C", "D", "E", "F", "G", "H", "I", "J", "K", "L", "M",
               "N", "O", "P", "Q", "R", "S", "T", "U", "V", "W", "X", "Y", "Z">>

LowerCase == <<"a", "b", "c", "d", "e", "f", "g", "h", "i", "j", "k", "l", "m",
               "n", "o", "p", "q", "r", "s", "t", "u", "v", "w", "x", "y", "z">>

(* SQLite's LIKE compares ASCII letters without regard to case             *)
FoldCase(c) ==
    IF \E i \in 1..Len(UpperCase) : UpperCase[i] = c
    THEN LowerCase[CHOOSE i \in 1..Len(UpperCase) : UpperCase[i] = c]
    ELSE c

(* text LIKE pat in SQLite: % matches any run of characters, _ matches     *)
(* any one character, a letter matches itself in either case               *)
RECURSIVE Like(_, _)
Like(text, pat) ==
    IF pat = <<>> THEN text = <<>>
    ELSE IF Head(pat) = "%"
         THEN Like(text, Tail(pat)) \/ (text # <<>> /\ Like(Tail(text), pat))
         ELSE /\ text # <<>>
              /\ Head(pat) = "_" \/ FoldCase(Head(pat)) = FoldCase(Head(text))
              /\ Like(Tail(text), Tail(pat))

(* The keys DELETE FROM cache WHERE key LIKE ? removes, the parameter      *)
(* being f"%{pattern}%"                                                    *)
LikeMatches(tbl, pattern) ==
    {k \in DOMAIN tbl : Like(k, <<"%">> \o pattern \o <<"%">>)}

(* clear_cache() taken as an expiry cleanup: without a pattern only the    *)
(* expired rows go                                                         *)
ClearedKeysExpiredOnly(tbl, pattern) ==
    IF pattern # None /\ pattern[1] # <<>>
    THEN LikeMatches(tbl, pattern[1])
    ELSE {k \in DOMAIN tbl : ~NotExpired(tbl[k].expires_at, now)}

(* The keys clear_cache removes: `if pattern:` is false for None and ""    *)
ClearedKeys(tbl, pattern) ==
    IF pattern # None /\ pattern[1] # <<>>
    THEN LikeMatches(tbl, pattern[1])
    ELSE DOMAIN tbl

(* clear_cache(pattern = None), returns cursor.rowcount                    *)
DbClearCache(pattern, fault) ==
    /\ IF fault
       THEN /\ UNCHANGED <<cache, hits>>
            /\ ret' = Ret("clear_cache", pattern, PyNone, None, PyInt(0), fault)
       ELSE /\ cache' = Without(cache, ClearedKeys(cache, pattern))
            /\ hits' = Without(hits, ClearedKeys(cache, pattern))
            /\ ret' = Ret("clear_cache", pattern, PyNone, None,
                          PyInt(Cardinality(ClearedKeys(cache, pattern))), fault)
    /\ UNCHANGED <<now, sessions, settings, lastSaved>>

----------------------------------------------------------------------------
(* Database: users                                                         *)

(* The row INSERT INTO users (user_id, username, email, password_hash,     *)
(* role) writes                                                            *)
UserRow(username, email, t) ==
    [username |-> username[1], email |-> email, role |-> "user", created_at |-> t]

(* A users table without its UNIQUE constraints                            *)
UniqueViolationOfIdOnly(tbl, user_id, username, email) ==
    user_id \in DOMAIN tbl \/ username = None

(* The INSERT raises sqlite3.IntegrityError: user_id TEXT PRIMARY KEY,     *)
(* username TEXT UNIQUE NOT NULL, email TEXT UNIQUE (NULLs are distinct)   *)
UniqueViolation(tbl, user_id, username, email) ==
    \/ user_id \in DOMAIN tbl
    \/ username = None
    \/ \E k \in DOMAIN tbl : tbl[k].username = username[1]
    \/ email # None /\ \E k \in DOMAIN tbl : tbl[k].email = email

(* create_user(user_id, username, email)                                   *)
DbCreateUser(user_id, username, email, fault) ==
    /\ IF fault \/ UniqueViolation(users, user_id, username, email)
       THEN /\ UNCHANGED users
            /\ ret' = Ret("create_user", user_id, <<username, email>>, None, PyFalse, fault)
       ELSE /\ users' = Upsert(users, user_id, UserRow(username, email, now))
            /\ ret' = Ret("create_user", user_id, <<username, email>>, None, PyTrue, fault)
    /\ UNCHANGED <<storeVars, schema, lastSetting, historyVars>>

----------------------------------------------------------------------------
(* Database: settings                                                      *)

(* INSERT OR REPLACE INTO settings (key, value, description, updated_at)   *)
SettingRow(value, description, t) ==
    [value |-> json_dumps(value), description |-> description, updated_at |-> t]

(* set_setting(key, value, description = None)                             *)
DbSetSetting(key, value, description, fault) ==
    /\ IF Serializable(value) /\ ~fault
       THEN /\ settings' = Upsert(settings, key, SettingRow(value, description, now))
            /\ lastSetting' = Upsert(lastSetting, key, value)
            /\ ret' = Ret("set_setting", key, value, None, PyTrue, fault)
       ELSE /\ UNCHANGED <<settings, lastSetting>>
            /\ ret' = Ret("set_setting", key, value, None, PyFalse, fault)
    /\ UNCHANGED <<now, sessions, cache, lastSaved, hits>>

(* get_setting that knows no default                                       *)
GetSettingResultWithoutDefault(tbl, key, default) ==
    IF key \in DOMAIN tbl THEN json_loads(tbl[key].value) ELSE PyNone

(* What get_setting returns on the table: json.loads of the row's value,   *)
(* the default when no row comes back                                      *)
GetSettingResult(tbl, key, default) ==
    IF key \in DOMAIN tbl THEN json_loads(tbl[key].value) ELSE default

(* get_setting(key, default); the default on an error                      *)
DbGetSetting(key, default, fault) ==
    /\ ret' = Ret("get_setting", key, default, None,
                  IF fault THEN default ELSE GetSettingResult(settings, key, default), fault)
    /\ UNCHANGED <<now, sessions, cache, settings, lastSaved, hits, lastSetting>>

(* clear_config(): DELETE FROM settings                                    *)
DbClearConfig(fault) ==
    /\ IF fault
       THEN /\ UNCHANGED <<settings, lastSetting>>
            /\ ret' = Ret("clear_config", None, PyNone, None, PyFalse, fault)
       ELSE /\ settings' = EmptyTable
            /\ lastSetting' = EmptyTable
            /\ ret' = Ret("clear_config", None, PyNone, None, PyTrue, fault)
    /\ UNCHANGED <<now, sessions, cache, lastSaved, hits>>

----------------------------------------------------------------------------
(* Database: expiry sweep and statistics                                   *)

(* The keys of the rows a sweep at time t deletes from a table             *)
SweptKeys(tbl, t) == {k \in DOMAIN tbl : SweepMatches(tbl[k].expires_at, t)}

(* _cleanup_expired(): one DELETE per table, then one commit; an error     *)
(* of the storage engine is raised to the caller                           *)
DbCleanupExpired(fault) ==
    /\ IF fault
       THEN /\ UNCHANGED <<sessions, cache, lastSaved, hits>>
            /\ ret' = Ret("_cleanup_expired", None, PyNone, None, <<"raised">>, fault)
       ELSE /\ sessions' = Without(sessions, SweptKeys(sessions, now))
            /\ lastSaved' = Without(lastSaved, SweptKeys(sessions, now))
            /\ cache' = Without(cache, SweptKeys(cache, now))
            /\ hits' = Without(hits, SweptKeys(cache, now))
            /\ ret' = Ret("_cleanup_expired", None,
                          <<"deleted", Cardinality(SweptKeys(sessions, now)),
                            Cardinality(SweptKeys(cache, now))>>,
                          None, PyNone, fault)
    /\ UNCHANGED <<now, settings>>

(* Counts that leave out the rows whose deadline has passed                *)
GetStatsResultLiveOnly(stbl, ctbl) ==
    [sessions_count |-> Cardinality({k \in DOMAIN stbl : NotExpired(stbl[k].expires_at, now)}),
     cache_count |-> Cardinality({k \in DOMAIN ctbl : NotExpired(ctbl[k].expires_at, now)})]

(* What get_stats reports of the two tables: a COUNT over each table       *)
GetStatsResult(stbl, ctbl) ==
    [sessions_count |-> Cardinality(DOMAIN stbl), cache_count |-> Cardinality(DOMAIN ctbl)]

(* get_stats(); {} on an error                                             *)
DbGetStats(fault) ==
    /\ ret' = Ret("get_stats", None, PyNone, None,
                  IF fault THEN PyDict(<<>>) ELSE <<"stats", GetStatsResult(sessions, cache)>>,
                  fault)
    /\ UNCHANGED <<now, sessions, cache, settings, lastSaved, hits>>

(* WindowsSessionManager.get_session_stats()["total_sessions"]:            *)
(* db_stats.get("sessions_count", 0)                                       *)
TotalSessions(stbl, ctbl) == GetStatsResult(stbl, ctbl).sessions_count

----------------------------------------------------------------------------
(* The clock                                                               *)

(* Time passes between two calls, up to the horizon of the run; two calls  *)
(* may also read the same time                                             *)
Tick(horizon) ==
    /\ now < horizon
    /\ now' = now + 1
    /\ ret' = Ret("tick", None, PyNone, None, PyNone, FALSE)
    /\ UNCHANGED <<sessions, cache, settings, lastSaved, hits>>

----------------------------------------------------------------------------
(* WindowsSessionManager                                                   *)

(* self.session_timeout, in ticks of the model's clock                     *)
SessionTimeout == 1

(* datetime.now().isoformat()                                              *)
IsoFormat(t) == PyStr(ToString(t))

(* session_data.get("user_id", ""), as passed on to save_session           *)
UserIdOf(data) == DictGet(data, PyStr("user_id"), PyStr(""))[2]

(* session_data["last_activity"] = datetime.now().isoformat()              *)
WithLastActivity(data, t) ==
    PyDict(DictSetItem(data[2], PyStr("last_activity"), IsoFormat(t)))

(* existing_data.update(data)                                              *)
(* A merge in which the keys already present keep their values             *)
RECURSIVE DictUpdateKeepingOld(_, _)
DictUpdateKeepingOld(items, new) ==
    IF new = <<>> THEN items
    ELSE DictUpdateKeepingOld(
             IF \E i \in 1..Len(items) : items[i][1] = new[1][1]
             THEN items
             ELSE Append(items, new[1]),
             Tail(new))

RECURSIVE DictUpdate(_, _)
DictUpdate(items, new) ==
    IF new = <<>> THEN items
    ELSE DictUpdate(DictSetItem(items, new[1][1], new[1][2]), Tail(new))

(* The session_data create_session builds; `user_data or {}`               *)
NewSessionData(uid, user_data, t) ==
    PyDict(<< <<PyStr("user_id"), PyStr(uid)>>,
              <<PyStr("created_at"), IsoFormat(t)>>,
              <<PyStr("last_activity"), IsoFormat(t)>>,
              <<PyStr("data"), IF Truthy(user_data) THEN user_data ELSE PyDict(<<>>)>> >>)

(* The sessions table after self.db.get_session(session_id)                *)
AfterDbGet(sid, fault) ==
    IF ~fault /\ SessionFound(sessions, sid, now)
    THEN TouchSession(sessions, sid, now)
    ELSE sessions

(* What self.db.get_session(session_id) hands to the manager               *)
DbGetValue(sid, fault) ==
    IF fault THEN PyNone ELSE GetSessionResult(sessions, sid, now)

(* The sessions table after self.db.save_session(...) on table tbl         *)
AfterDbSave(tbl, sid, data, ttl, fault) ==
    IF SaveSessionOk(data, ttl, fault)
    THEN Upsert(tbl, sid, SessionRow(UserIdOf(data), data, ttl, now))
    ELSE tbl

(* The history of saved data after self.db.save_session(...)               *)
SavedAfter(sid, data, ttl, fault) ==
    IF SaveSessionOk(data, ttl, fault) THEN Upsert(lastSaved, sid, data) ELSE lastSaved

(* create_session(user_id, user_data): the id is a fresh uuid4             *)
MgrCreateSession(sid, uid, user_data, fault) ==
    LET data == NewSessionData(uid, user_data, now)
        ttl == Some(SessionTimeout)
    IN /\ sid \notin DOMAIN sessions
       /\ sessions' = AfterDbSave(sessions, sid, data, ttl, fault)
       /\ lastSaved' = SavedAfter(sid, data, ttl, fault)
       /\ ret' = Ret("create_session", sid, user_data, ttl,
                     IF SaveSessionOk(data, ttl, fault) THEN PyStr(sid) ELSE PyNone, fault)
       /\ UNCHANGED <<now, cache, settings, hits>>

(* The timeout get_session and update_session pass to save_session         *)
AccessTimeout == Some(SessionTimeout)

(* get_session(session_id): read, stamp last_activity, save again          *)
MgrGetSession(sid, fault, fault2) ==
    LET got == DbGetValue(sid, fault)
        data == WithLastActivity(got, now)
    IN /\ IF Truthy(got)
          THEN /\ sessions' = AfterDbSave(AfterDbGet(sid, fault), sid, data, AccessTimeout, fault2)
               /\ lastSaved' = SavedAfter(sid, data, AccessTimeout, fault2)
               /\ ret' = Ret("mgr_get_session", sid, PyNone, AccessTimeout, data, fault)
          ELSE /\ sessions' = AfterDbGet(sid, fault)
               /\ UNCHANGED lastSaved
               /\ ret' = Ret("mgr_get_session", sid, PyNone, AccessTimeout, PyNone, fault)
       /\ UNCHANGED <<now, cache, settings, hits>>

(* update_session(session_id, data): read, merge, stamp, save              *)
MgrUpdateSession(sid, new, fault, fault2) ==
    LET got == DbGetValue(sid, fault)
        data == WithLastActivity(PyDict(DictUpdate(got[2], new[2])), now)
    IN /\ IF Truthy(got)
          THEN /\ sessions' = AfterDbSave(AfterDbGet(sid, fault), sid, data, AccessTimeout, fault2)
               /\ lastSaved' = SavedAfter(sid, data, AccessTimeout, fault2)
               /\ ret' = Ret("update_session", sid, new, AccessTimeout,
                             PyBool(SaveSessionOk(data, AccessTimeout, fault2)), fault)
          ELSE /\ sessions' = AfterDbGet(sid, fault)
               /\ UNCHANGED lastSaved
               /\ ret' = Ret("update_session", sid, new, AccessTimeout, PyFalse, fault)
       /\ UNCHANGED <<now, cache, settings, hits>>

(* timeout = additional_time or self.session_timeout                       *)
ExtendTimeout(additional_time) ==
    IF additional_time # None /\ additional_time[1] # 0
    THEN additional_time
    ELSE Some(SessionTimeout)

(* extend_session(session_id, additional_time = None): read, save with     *)
(* the new timeout                                                         *)
MgrExtendSession(sid, additional_time, fault, fault2) ==
    LET got == DbGetValue(sid, fault)
        ttl == ExtendTimeout(additional_time)
    IN /\ IF Truthy(got)
          THEN /\ sessions' = AfterDbSave(AfterDbGet(sid, fault), sid, got, ttl, fault2)
               /\ lastSaved' = SavedAfter(sid, got, ttl, fault2)
               /\ ret' = Ret("extend_session", sid, PyNone, ttl,
                             PyBool(SaveSessionOk(got, ttl, fault2)), fault)
          ELSE /\ sessions' = AfterDbGet(sid, fault)
               /\ UNCHANGED lastSaved
               /\ ret' = Ret("extend_session", sid, PyNone, ttl, PyFalse, fault)
       /\ UNCHANGED <<now, cache, settings, hits>>

----------------------------------------------------------------------------
(* Threads and their connections                                           *)

(* The thread that constructs the Database and makes the calls of the      *)
(* single-threaded workloads                                               *)
Main == <<"main", 0>>

Workers == {<<"worker", 1>>, <<"worker", 2>>}

MaxManagers == 2

(* The cleanup thread of the m-th WindowsSessionManager                    *)
SweeperThread(m) == <<"sweeper", m>>

AllThreads == {Main} \cup Workers \cup {SweeperThread(m) : m \in 1..MaxManagers}

MaxConns == 4

(* One connection kept on the instance and handed to every thread          *)
SharedConnection(t) ==
    IF \E u \in AllThreads : local[u] # 0
    THEN local[CHOOSE u \in AllThreads : local[u] # 0]
    ELSE 0

(* self._local.connection as thread t sees it; 0 when hasattr is false     *)
LocalConnection(t) == local[t]

(* The model has a connection left for the thread                          *)
CanConnect(t) == LocalConnection(t) # 0 \/ Len(owner) < MaxConns

(* _get_connection() on thread t: sqlite3.connect on the thread's first    *)
(* use, the thread's own connection afterwards                             *)
GetConnection(t) ==
    IF LocalConnection(t) = 0
    THEN /\ owner' = Append(owner, t)
         /\ opened' = opened \cup {Len(owner) + 1}
         /\ local' = [local EXCEPT ![t] = Len(owner) + 1]
         /\ used' = used \cup {<<Len(owner) + 1, t>>}
    ELSE /\ used' = used \cup {<<LocalConnection(t), t>>}
         /\ UNCHANGED <<local, owner, opened>>

(* Database.close() on thread t                                            *)
DbClose(t) ==
    /\ IF LocalConnection(t) # 0
       THEN /\ opened' = opened \ {LocalConnection(t)}
            /\ local' = [local EXCEPT ![t] = 0]
       ELSE UNCHANGED <<opened, local>>
    /\ ret' = Ret("close", t, PyNone, None, PyNone, FALSE)
    /\ UNCHANGED <<owner, used, storeVars>>

(* The locals of the statement a shared cursor holds: those of whichever   *)
(* thread prepared one                                                     *)
JobOfSharedCursor(t) == job[CHOOSE u \in Workers : pc[u] = "prepared"]

(* The locals of thread t's save_session: session_id, user_id, data,       *)
(* expires_at, data_json                                                   *)
JobOf(t) == job[t]

(* save_session on thread t, up to its INSERT: the connection, expires_at  *)
(* and data_json                                                           *)
ThreadPrepareSave(t, sid, uid, data, ttl) ==
    /\ pc[t] = "idle"
    /\ CanConnect(t)
    /\ GetConnection(t)
    /\ IF TimedeltaRaises(ttl) \/ ~Serializable(data)
       THEN /\ pc' = [pc EXCEPT ![t] = "done"]
            /\ job' = [job EXCEPT ![t] = [sid |-> sid, uid |-> uid, data |-> data,
                                          ttl |-> ttl, result |-> PyFalse]]
            /\ ret' = Ret("save_session", sid, data, ttl, PyFalse, FALSE)
       ELSE /\ pc' = [pc EXCEPT ![t] = "prepared"]
            /\ job' = [job EXCEPT ![t] = [sid |-> sid, uid |-> uid, data |-> data,
                                          ttl |-> ttl, result |-> PyNone,
                                          expires_at |-> ExpiresAt(now, ttl),
                                          data_json |-> json_dumps(data)]]
            /\ ret' = Ret("save_session_prepared", sid, data, ttl, PyNone, FALSE)
    /\ UNCHANGED <<storeVars, singletonVars>>

(* A save that writes its columns one by one: a row that is there keeps    *)
(* its user_id and its deadline and takes the new data                     *)
RowOfSaveColumnWise(tbl, j, t) ==
    IF j.sid \in DOMAIN tbl
    THEN [tbl[j.sid] EXCEPT !.data = j.data_json, !.updated_at = t]
    ELSE [user_id |-> j.uid, data |-> j.data_json, created_at |-> t, updated_at |-> t,
          expires_at |-> j.expires_at]

(* The row the INSERT OR REPLACE of a save writes: every column from the   *)
(* one call's locals                                                       *)
RowOfSave(tbl, j, t) ==
    [user_id |-> j.uid, data |-> j.data_json, created_at |-> t, updated_at |-> t,
     expires_at |-> j.expires_at]

(* save_session on thread t, its INSERT OR REPLACE and commit: one write   *)
(* transaction, which SQLite runs one at a time                            *)
ThreadWriteSave(t, fault) ==
    /\ pc[t] = "prepared"
    /\ LET j == JobOf(t)
       IN IF fault
          THEN /\ UNCHANGED <<sessions, lastSaved>>
               /\ ret' = Ret("save_session", job[t].sid, job[t].data, job[t].ttl, PyFalse, fault)
          ELSE /\ sessions' = Upsert(sessions, j.sid, RowOfSave(sessions, j, now))
               /\ lastSaved' = Upsert(lastSaved, j.sid, j.data)
               /\ ret' = Ret("save_session", job[t].sid, job[t].data, job[t].ttl, PyTrue, fault)
    /\ pc' = [pc EXCEPT ![t] = "done"]
    /\ job' = [job EXCEPT ![t].result = IF fault THEN PyFalse ELSE PyTrue]
    /\ UNCHANGED <<now, cache, settings, hits, connVars, singletonVars>>

(* get_session on thread t, after its save has returned                    *)
ThreadGetSession(t, sid, fault) ==
    /\ pc[t] = "done"
    /\ CanConnect(t)
    /\ GetConnection(t)
    /\ DbGetSession(sid, fault)
    /\ UNCHANGED <<threadVars, singletonVars>>

(* Database.close() on thread t, between two of its calls                  *)
ThreadClose(t) ==
    /\ pc[t] \in {"idle", "done"}
    /\ DbClose(t)
    /\ UNCHANGED <<threadVars, singletonVars>>

----------------------------------------------------------------------------
(* Database: schema initialization                                         *)

(* _init_database() on thread t: CREATE TABLE IF NOT EXISTS for each       *)
(* table, CREATE INDEX IF NOT EXISTS, one commit; an error of the storage  *)
(* engine is raised to the caller and nothing is committed                 *)
DbInitDatabase(t, fault) ==
    /\ CanConnect(t)
    /\ GetConnection(t)
    /\ IF fault
       THEN /\ UNCHANGED <<sessions, cache, settings, users, schema>>
            /\ ret' = Ret("_init_database", None, <<"had", schema>>, None, <<"raised">>, fault)
       ELSE /\ sessions' = CreateTableIfNotExists("sessions" \in schema, sessions)
            /\ cache' = CreateTableIfNotExists("cache" \in schema, cache)
            /\ users' = CreateTableIfNotExists("users" \in schema, users)
            /\ settings' = CreateTableIfNotExists("settings" \in schema, settings)
            /\ schema' = schema \cup AllTables
            /\ ret' = Ret("_init_database", None, <<"had", schema>>, None, PyNone, fault)
    /\ UNCHANGED <<now, lastSaved, hits, lastSetting, historyVars>>

----------------------------------------------------------------------------
(* get_database(): the process-wide Database under a double-checked lock   *)

(* _db_instance is None, as tested outside the lock                        *)
IsNone(instance) == instance = 0

(* The test under the lock left out: whoever gets the lock constructs      *)
StillNoneUnchecked(instance) == TRUE

(* _db_instance is None, as tested again under the lock                    *)
StillNone(instance) == instance = 0

(* if _db_instance is None: the test outside the lock.  A thread that      *)
(* finds the instance returns it; one that does not goes for the lock.     *)
GdbFirstCheck(t) ==
    /\ pc[t] \in {"idle", "returned"}
    /\ IF IsNone(dbInstance)
       THEN /\ pc' = [pc EXCEPT ![t] = "waiting"]
            /\ job' = [job EXCEPT ![t] = None]
            /\ ret' = Ret("get_database_waits", t, PyNone, None, PyNone, FALSE)
       ELSE /\ pc' = [pc EXCEPT ![t] = "returned"]
            /\ job' = [job EXCEPT ![t] = Some(dbInstance)]
            /\ ret' = Ret("get_database", t, PyNone, None, PyInt(dbInstance), FALSE)
    /\ UNCHANGED <<storeVars, connVars, singletonVars>>

(* with _db_lock: the thread enters when no thread holds the lock          *)
GdbAcquire(t) ==
    /\ pc[t] = "waiting"
    /\ dbLock = None
    /\ dbLock' = Some(t)
    /\ pc' = [pc EXCEPT ![t] = "locked"]
    /\ ret' = Ret("get_database_locked", t, PyNone, None, PyNone, FALSE)
    /\ UNCHANGED <<storeVars, connVars, job, dbInstance, constructed>>

(* Under the lock: if _db_instance is None: _db_instance = Database().     *)
(* Database.__init__ opens the constructing thread's connection.           *)
GdbConstruct(t) ==
    /\ pc[t] = "locked"
    /\ IF StillNone(dbInstance)
       THEN /\ CanConnect(t)
            /\ GetConnection(t)
            /\ constructed' = constructed + 1
            /\ dbInstance' = constructed + 1
            /\ schema' = schema \cup AllTables
       ELSE UNCHANGED <<connVars, constructed, dbInstance, schema>>
    /\ pc' = [pc EXCEPT ![t] = "built"]
    /\ ret' = Ret("get_database_built", t, PyNone, None, PyNone, FALSE)
    /\ UNCHANGED <<storeVars, job, dbLock>>

(* Leaving the with block and return _db_instance                          *)
GdbReturn(t) ==
    /\ pc[t] = "built"
    /\ dbLock' = None
    /\ pc' = [pc EXCEPT ![t] = "returned"]
    /\ job' = [job EXCEPT ![t] = Some(dbInstance)]
    /\ ret' = Ret("get_database", t, PyNone, None, PyInt(dbInstance), FALSE)
    /\ UNCHANGED <<storeVars, connVars, dbInstance, constructed>>

----------------------------------------------------------------------------
(* get_database() and close_database() of several threads, one read or    *)
(* write of the global _db_instance at a time                              *)

(* How often the model lets Database() be constructed                      *)
MaxBuilt == 2

(* What `return _db_instance` returns: the global as it is read then       *)
ReturnedInstance(instance) == IF instance = 0 THEN PyNone ELSE PyInt(instance)

(* get_database(): if _db_instance is None, the test outside the lock      *)
AccTest(t) ==
    /\ pc[t] = "idle"
    /\ pc' = [pc EXCEPT ![t] = IF IsNone(dbInstance) THEN "waiting" ELSE "found"]
    /\ ret' = Ret("get_database_tests", t, PyNone, None, PyNone, FALSE)
    /\ UNCHANGED <<job, storeVars, connVars, singletonVars>>

(* get_database(): leaving the with block                                  *)
AccRelease(t) ==
    /\ pc[t] = "built"
    /\ dbLock' = None
    /\ pc' = [pc EXCEPT ![t] = "found"]
    /\ ret' = Ret("get_database_unlocks", t, PyNone, None, PyNone, FALSE)
    /\ UNCHANGED <<job, storeVars, connVars, dbInstance, constructed>>

(* get_database(): return _db_instance, a read of the global of its own    *)
AccReturn(t) ==
    /\ pc[t] = "found"
    /\ pc' = [pc EXCEPT ![t] = "idle"]
    /\ ret' = Ret("get_database", t, PyNone, None, ReturnedInstance(dbInstance), FALSE)
    /\ UNCHANGED <<job, storeVars, connVars, singletonVars>>

(* close_database(): if _db_instance, the test; nothing to do when it is   *)
(* None                                                                    *)
CloseTest(t) ==
    /\ pc[t] = "idle"
    /\ IF IsNone(dbInstance)
       THEN /\ UNCHANGED pc
            /\ ret' = Ret("close_database", t, PyNone, None, PyNone, FALSE)
       ELSE /\ pc' = [pc EXCEPT ![t] = "closing"]
            /\ ret' = Ret("close_database_tests", t, PyNone, None, PyNone, FALSE)
    /\ UNCHANGED <<job, storeVars, connVars, singletonVars>>

(* close_database(): _db_instance.close(), on the global as it is read     *)
(* now; None has no attribute close, and AttributeError leaves the call    *)
CloseCall(t) ==
    /\ pc[t] = "closing"
    /\ IF IsNone(dbInstance)
       THEN /\ pc' = [pc EXCEPT ![t] = "idle"]
            /\ ret' = Ret("close_database", t, PyNone, None,
                          <<"raised", "AttributeError">>, FALSE)
            /\ UNCHANGED <<connVars, now, sessions, cache, settings, lastSaved, hits>>
       ELSE /\ pc' = [pc EXCEPT ![t] = "closed"]
            /\ DbClose(t)
    /\ UNCHANGED <<job, singletonVars>>

(* close_database(): _db_instance = None, and the return                   *)
CloseAssign(t) ==
    /\ pc[t] = "closed"
    /\ dbInstance' = 0
    /\ pc' = [pc EXCEPT ![t] = "idle"]
    /\ ret' = Ret("close_database", t, PyNone, None, PyNone, FALSE)
    /\ UNCHANGED <<job, storeVars, connVars, dbLock, constructed>>

----------------------------------------------------------------------------
(* WindowsSessionManager: the cleanup thread and its lifecycle             *)

(* self.cleanup_interval, in ticks of the model's clock                    *)
CleanupInterval == 3

(* self._cleanup_thread.is_alive()                                         *)
Alive(m) == managers[m].thread # "exited"

(* When self._stop_cleanup.wait(self.cleanup_interval) times out, for a    *)
(* wait entered at time t                                                  *)
NextDue(t) == t + CleanupInterval

(* WindowsSessionManager.__init__: the stop event is clear and the cleanup *)
(* thread is started; it enters its first wait                             *)
NewManager(t) == [stop |-> FALSE, thread |-> "waiting", due |-> NextDue(t)]

(* A cleanup thread has something to do at the present time: its wait has  *)
(* timed out or was ended by the stop event, or it is inside a pass        *)
SweeperBusy ==
    \E m \in 1..Len(managers) :
       \/ managers[m].thread = "ticking"
       \/ managers[m].thread = "waiting" /\ (managers[m].stop \/ now >= managers[m].due)

(* get_session_manager(): constructs the manager when _session_manager is  *)
(* None, returns the one there is otherwise                                *)
GetSessionManagerCall ==
    /\ caller = None
    /\ IF sessionManager = 0
       THEN /\ Len(managers) < MaxManagers
            /\ managers' = Append(managers, NewManager(now))
            /\ sessionManager' = Len(managers) + 1
            /\ ret' = Ret("get_session_manager", None, PyNone, None,
                          PyInt(Len(managers) + 1), FALSE)
       ELSE /\ UNCHANGED <<managers, sessionManager>>
            /\ ret' = Ret("get_session_manager", None, PyNone, None,
                          PyInt(sessionManager), FALSE)
    /\ UNCHANGED <<caller, storeVars, threadVars, connVars, singletonVars>>

(* What shutdown logs before it returns: "Session manager shutdown         *)
(* completed", at level info                                               *)
ShutdownLog(m) == <<"log", "info">>

(* shutdown() of manager m up to its join: self._stop_cleanup.set(), then  *)
(* join(timeout=5) if the thread is alive; fn is the function the caller   *)
(* called, shutdown or shutdown_session_manager                            *)
BeginShutdown(m, fn) ==
    /\ caller = None
    /\ managers' = [managers EXCEPT ![m].stop = TRUE]
    /\ IF Alive(m)
       THEN /\ caller' = Some([fn |-> fn, m |-> m])
            /\ ret' = Ret("shutdown_joins", m, PyNone, None, PyNone, FALSE)
            /\ UNCHANGED sessionManager
       ELSE /\ caller' = None
            /\ ret' = Ret("shutdown", m, <<"thread", managers[m].thread>>, None,
                          ShutdownLog(m), FALSE)
            /\ sessionManager' = IF fn = "shutdown_session_manager" THEN 0
                                 ELSE sessionManager
    /\ UNCHANGED <<storeVars, threadVars, connVars, singletonVars>>

(* join(timeout=5) returns, because the thread has ended or because the    *)
(* five seconds are over while the thread is inside a pass; shutdown logs  *)
(* and returns, and shutdown_session_manager sets _session_manager = None  *)
JoinReturns ==
    /\ caller # None
    /\ LET m == caller[1].m
       IN /\ managers[m].thread \in {"exited", "ticking"}
          /\ ret' = Ret("shutdown", m, <<"thread", managers[m].thread>>, None,
                        ShutdownLog(m), FALSE)
    /\ caller' = None
    /\ sessionManager' = IF caller[1].fn = "shutdown_session_manager" THEN 0
                         ELSE sessionManager
    /\ UNCHANGED <<managers, storeVars, threadVars, connVars, singletonVars>>

(* shutdown_session_manager() when _session_manager is None: nothing       *)
ShutdownNothing ==
    /\ caller = None
    /\ sessionManager = 0
    /\ ret' = Ret("shutdown_session_manager", None, PyNone, None, PyNone, FALSE)
    /\ UNCHANGED <<sweeperVars, storeVars, threadVars, connVars, singletonVars>>

(* A wait that times out although the stop event is set                    *)
SweeperWakesDespiteStop(m) ==
    /\ managers[m].thread = "waiting"
    /\ now >= managers[m].due
    /\ managers' = [managers EXCEPT ![m].thread = "ticking"]
    /\ ret' = Ret("sweeper_wakes", m, PyNone, None, PyNone, FALSE)
    /\ UNCHANGED <<sessionManager, caller, storeVars, threadVars, connVars, singletonVars>>

(* _cleanup_worker: the wait of manager m's thread times out               *)
SweeperWakes(m) ==
    /\ managers[m].thread = "waiting"
    /\ ~managers[m].stop
    /\ now >= managers[m].due
    /\ managers' = [managers EXCEPT ![m].thread = "ticking"]
    /\ ret' = Ret("sweeper_wakes", m, PyNone, None, PyNone, FALSE)
    /\ UNCHANGED <<sessionManager, caller, storeVars, threadVars, connVars, singletonVars>>

(* A pass whose error ends the cleanup thread                              *)
SweeperTicksDyingOnError(m, fault) ==
    /\ managers[m].thread = "ticking"
    /\ CanConnect(SweeperThread(m))
    /\ GetConnection(SweeperThread(m))
    /\ DbCleanupExpired(fault)
    /\ managers' = IF fault THEN [managers EXCEPT ![m].thread = "exited"]
                   ELSE [managers EXCEPT ![m].thread = "waiting", ![m].due = NextDue(now)]
    /\ UNCHANGED <<sessionManager, caller, threadVars, singletonVars>>

(* _cleanup_worker: one pass, self.db._cleanup_expired() on the cleanup    *)
(* thread's own connection (an error is caught and logged), and into the   *)
(* next wait                                                               *)
SweeperTicks(m, fault) ==
    /\ managers[m].thread = "ticking"
    /\ CanConnect(SweeperThread(m))
    /\ GetConnection(SweeperThread(m))
    /\ DbCleanupExpired(fault)
    /\ managers' = [managers EXCEPT ![m].thread = "waiting", ![m].due = NextDue(now)]
    /\ UNCHANGED <<sessionManager, caller, threadVars, singletonVars>>

(* _cleanup_worker: the wait returns true, the stop event is set; the      *)
(* thread ends and its connection goes with its thread-local storage       *)
SweeperStops(m) ==
    /\ managers[m].thread = "waiting"
    /\ managers[m].stop
    /\ managers' = [managers EXCEPT ![m].thread = "exited"]
    /\ opened' = opened \ {local[SweeperThread(m)]}
    /\ local' = [local EXCEPT ![SweeperThread(m)] = 0]
    /\ ret' = Ret("sweeper_stops", m, PyNone, None, PyNone, FALSE)
    /\ UNCHANGED <<owner, used, sessionManager, caller, storeVars, threadVars, singletonVars>>

----------------------------------------------------------------------------
(* Calls of several threads, statement by statement.  A get is a SELECT    *)
(* and, on a hit, a bookkeeping UPDATE with its commit; the manager's      *)
(* get_session, update_session and extend_session are such a get followed  *)
(* by a save_session.  Each statement is one step of its thread; other     *)
(* threads' statements fall between them.                                  *)

(* What a call returns when its get finds nothing or fails                 *)
MissValue(fn) ==
    IF fn \in {"update_session", "extend_session"} THEN PyFalse ELSE PyNone

(* The data field of the record of a call: the thread for a get, the       *)
(* argument for a manager call                                             *)
CallData(fn, t, arg) == IF fn \in {"get_session", "get_cache"} THEN t ELSE arg

(* A bookkeeping statement that writes the row back whether or not it is   *)
(* still there                                                             *)
TouchSessionUpserting(tbl, sid, t) ==
    IF sid \in DOMAIN tbl THEN TouchSession(tbl, sid, t)
    ELSE Upsert(tbl, sid, SessionRow("", DataEmpty, Some(1), t))

(* UPDATE sessions SET updated_at = ? WHERE session_id = ?, on a table     *)
(* that may have lost the row since the SELECT: no row, no change          *)
TouchSessionWhere(tbl, sid, t) ==
    IF sid \in DOMAIN tbl THEN TouchSession(tbl, sid, t) ELSE tbl

(* A counter that is set rather than incremented                           *)
TouchCacheSettingOne(tbl, key, t) ==
    IF key \in DOMAIN tbl
    THEN [tbl EXCEPT ![key].access_count = 1, ![key].last_accessed = t]
    ELSE tbl

(* UPDATE cache SET access_count = access_count + 1, last_accessed = ?     *)
(* WHERE key = ?, on a table that may have lost the row since the SELECT   *)
TouchCacheWhere(tbl, key, t) ==
    IF key \in DOMAIN tbl THEN TouchCache(tbl, key, t) ELSE tbl

(* The gets of other threads that have selected the key's row and have     *)
(* their UPDATE ahead                                                      *)
InFlight(key) ==
    {u \in Workers : pc[u] = "selected" /\ job[u].table = "cache" /\ job[u].key = key}

(* The SELECT of get_session on thread t, made by Database.get_session or  *)
(* by the manager call fn; a miss or an error ends the call                *)
ThreadSelectSession(t, fn, sid, arg, fault) ==
    /\ pc[t] \in {"idle", "done"}
    /\ CanConnect(t)
    /\ GetConnection(t)
    /\ IF ~fault /\ SessionFound(sessions, sid, now)
       THEN /\ pc' = [pc EXCEPT ![t] = "selected"]
            /\ job' = [job EXCEPT ![t] = [fn |-> fn, table |-> "sessions", key |-> sid,
                                          arg |-> arg,
                                          got |-> GetSessionResult(sessions, sid, now)]]
            /\ ret' = Ret("selected", sid, t, None, PyNone, fault)
       ELSE /\ pc' = [pc EXCEPT ![t] = "idle"]
            /\ job' = [job EXCEPT ![t] = None]
            /\ ret' = Ret(fn, sid, CallData(fn, t, arg), None, MissValue(fn), fault)
    /\ UNCHANGED <<storeVars, singletonVars>>

(* The SELECT of get_cache on thread t; the counter is capped at MaxCount  *)
ThreadSelectCache(t, key, fault) ==
    /\ pc[t] \in {"idle", "done"}
    /\ key \in DOMAIN cache =>
          cache[key].access_count + Cardinality(InFlight(key)) < MaxCount
    /\ CanConnect(t)
    /\ GetConnection(t)
    /\ IF ~fault /\ CacheFound(cache, key, now)
       THEN /\ pc' = [pc EXCEPT ![t] = "selected"]
            /\ job' = [job EXCEPT ![t] = [fn |-> "get_cache", table |-> "cache", key |-> key,
                                          arg |-> PyNone,
                                          got |-> GetCacheResult(cache, key, now)]]
            /\ ret' = Ret("selected", key, t, None, PyNone, fault)
       ELSE /\ pc' = [pc EXCEPT ![t] = "idle"]
            /\ job' = [job EXCEPT ![t] = None]
            /\ ret' = Ret("get_cache", key, t, None, PyNone, fault)
    /\ UNCHANGED <<storeVars, singletonVars>>

(* The bookkeeping UPDATE and commit of the get on thread t.  Database's   *)
(* get returns what the SELECT read, or none on an error; a manager call   *)
(* goes on with the data                                                   *)
ThreadTouch(t, fault) ==
    /\ pc[t] = "selected"
    /\ LET j == job[t]
       IN /\ IF fault
             THEN UNCHANGED <<sessions, cache, hits>>
             ELSE IF j.table = "sessions"
                  THEN /\ sessions' = TouchSessionWhere(sessions, j.key, now)
                       /\ UNCHANGED <<cache, hits>>
                  ELSE /\ cache' = TouchCacheWhere(cache, j.key, now)
                       /\ hits' = IF j.key \in DOMAIN hits
                                  THEN [hits EXCEPT ![j.key] = @ + 1]
                                  ELSE hits
                       /\ UNCHANGED sessions
          /\ IF fault \/ j.fn \in {"get_session", "get_cache"}
             THEN /\ pc' = [pc EXCEPT ![t] = "idle"]
                  /\ job' = [job EXCEPT ![t] = None]
                  /\ ret' = Ret(j.fn, j.key, CallData(j.fn, t, j.arg), None,
                                IF fault THEN MissValue(j.fn) ELSE j.got, fault)
             ELSE /\ pc' = [pc EXCEPT ![t] = "read"]
                  /\ UNCHANGED job
                  /\ ret' = Ret("touched", j.key, t, None, PyNone, fault)
    /\ UNCHANGED <<now, settings, lastSaved, connVars, singletonVars>>

(* The data a manager call saves back: what it read, stamped, merged with  *)
(* the update's data, or as it is                                          *)
SaveBackData(j, t) ==
    CASE j.fn = "mgr_get_session" -> WithLastActivity(j.got, t)
      [] j.fn = "update_session" ->
           WithLastActivity(PyDict(DictUpdate(j.got[2], j.arg[2])), t)
      [] j.fn = "extend_session" -> j.got

(* The timeout a manager call saves with                                   *)
SaveBackTimeout(j) ==
    IF j.fn = "extend_session" THEN ExtendTimeout(j.arg) ELSE AccessTimeout

(* The self.db.save_session of the manager call on thread t, and the       *)
(* call's return; `if session_data:` skips the save for an empty dict      *)
ThreadSaveBack(t, fault) ==
    /\ pc[t] = "read"
    /\ LET j == job[t]
           data == SaveBackData(j, now)
           ttl == SaveBackTimeout(j)
       IN IF Truthy(j.got)
          THEN /\ sessions' = AfterDbSave(sessions, j.key, data, ttl, fault)
               /\ lastSaved' = SavedAfter(j.key, data, ttl, fault)
               /\ ret' = Ret(j.fn, j.key, j.arg, ttl,
                             IF j.fn = "mgr_get_session" THEN data
                             ELSE PyBool(SaveSessionOk(data, ttl, fault)), fault)
          ELSE /\ UNCHANGED <<sessions, lastSaved>>
               /\ ret' = Ret(j.fn, j.key, j.arg, ttl, MissValue(j.fn), fault)
    /\ pc' = [pc EXCEPT ![t] = "idle"]
    /\ job' = [job EXCEPT ![t] = None]
    /\ UNCHANGED <<now, cache, settings, hits, connVars, singletonVars>>

(* The sessions whose delete stands, after the call just made              *)
DeletedAfter ==
    IF ret'.op = "delete_session" /\ ret'.val = PyTrue
    THEN deleted \cup {ret'.key}
    ELSE IF ret'.op = "save_session" /\ ret'.val = PyTrue
         THEN deleted \ {ret'.key}
         ELSE deleted

(* The items merged in by update_session, after the call just made         *)
UpdatesAfter ==
    IF ret'.op = "update_session" /\ ret'.val = PyTrue
    THEN Upsert(updates, ret'.key,
                DictUpdate(IF ret'.key \in DOMAIN updates THEN updates[ret'.key] ELSE <<>>,
                           ret'.data[2]))
    ELSE IF ret'.op \in {"delete_session", "save_session"} /\ ret'.val = PyTrue
         THEN Without(updates, {ret'.key})
         ELSE updates

(* The histories follow the call just made                                 *)
Track ==
    /\ deleted' = DeletedAfter
    /\ updates' = UpdatesAfter

----------------------------------------------------------------------------
(* Transactions.  The sqlite3 module opens a transaction before an INSERT, *)
(* UPDATE or DELETE; the statement takes the file's write lock, and the    *)
(* lock goes with conn.commit().  No operation of Database rolls back.     *)

(* Another thread's connection holds the write lock: the statement waits   *)
(* the connection's timeout of 30 seconds and raises "database is locked"  *)
LockedOut(t) == writer # None /\ writer # Some(t)

(* The write lock after create_user on thread t: the INSERT that raises    *)
(* IntegrityError has taken the lock, and the except branch returns        *)
(* without commit or rollback                                              *)
WriterAfterCreateUser(t, locked, violation) ==
    IF locked THEN writer ELSE IF violation THEN Some(t) ELSE None

(* create_user(user_id, username, email) on thread t, with the write lock  *)
TxnCreateUser(t, user_id, username, email) ==
    LET locked == LockedOut(t)
        violation == UniqueViolation(users, user_id, username, email)
    IN /\ CanConnect(t)
       /\ GetConnection(t)
       /\ users' = IF locked \/ violation THEN users
                   ELSE Upsert(users, user_id, UserRow(username, email, now))
       /\ writer' = WriterAfterCreateUser(t, locked, violation)
       /\ ret' = Ret("create_user", user_id, <<"thread", t>>, None,
                     PyBool(~locked /\ ~violation), locked)
       /\ UNCHANGED storeVars

(* save_session(session_id, user_id, data, expires_in) on thread t, with   *)
(* the write lock: json.dumps and timedelta come before the INSERT, and    *)
(* the commit ends whatever transaction the connection has open            *)
TxnSaveSession(t, sid, uid, data, ttl) ==
    /\ CanConnect(t)
    /\ GetConnection(t)
    /\ DbSaveSession(sid, uid, data, ttl, LockedOut(t))
    /\ writer' = IF SaveSessionOk(data, ttl, LockedOut(t)) THEN None ELSE writer

----------------------------------------------------------------------------
(* OpenWebUIIntegrationManager                                             *)

(* A table after self.session_mgr.cleanup_all_sessions(): the sweep of     *)
(* _cleanup_expired, whose error _cleanup_expired_sessions logs and drops  *)
AfterCleanupAllSessions(tbl, fault) ==
    IF fault THEN tbl ELSE Without(tbl, SweptKeys(tbl, now))

(* The cache after self.db.clear_cache(), called with no pattern           *)
AfterClearCache(tbl, fault) ==
    IF fault THEN tbl ELSE Without(tbl, ClearedKeys(tbl, None))

(* cleanup_expired_data(): cleanup_all_sessions(), which returns 0, then   *)
(* clear_cache(), which returns its rowcount, or 0 on an error             *)
IntCleanupExpiredData(sweepFault, clearFault) ==
    LET swept == AfterCleanupAllSessions(cache, sweepFault)
        cleared == IF clearFault THEN {} ELSE ClearedKeys(swept, None)
    IN /\ sessions' = AfterCleanupAllSessions(sessions, sweepFault)
       /\ lastSaved' = Without(lastSaved, DOMAIN sessions \ DOMAIN sessions')
       /\ cache' = AfterClearCache(swept, clearFault)
       /\ hits' = Without(hits, DOMAIN cache \ DOMAIN cache')
       /\ ret' = Ret("cleanup_expired_data", None, PyNone, None,
                     [sessions_cleaned |-> PyInt(0),
                      cache_entries_cleaned |-> PyInt(Cardinality(cleared))],
                     sweepFault \/ clearFault)
       /\ UNCHANGED <<now, settings>>

----------------------------------------------------------------------------
(* Workloads.  Each run of the model is one workload: a store as the       *)
(* process finds it at startup, and callers that pass the workload's ids,  *)
(* keys and values to the interface in any order.                          *)

CacheKeys == {<<"a">>, <<"b">>}

(* Keys with wildcard characters and capital letters                       *)
WildKeys == {<<"a", "_", "c">>, <<"a", "b", "c">>, <<"A", "_", "C">>, <<"x">>}

Patterns == {None, Some(<<>>), Some(<<"a", "_", "c">>), Some(<<"b">>),
             Some(<<"_">>), Some(<<"%">>), Some(<<"X">>), Some(<<"z">>)}

(* Cache keys at the edge of the key space: the empty string among them    *)
EdgeKeys == {<<>>, <<"a">>}

SettingKeys == {"theme", "lang"}

JsonData == {DataPlain, DataList, DataTuple, DataIntKey, DataSet, DataEmpty}

NoInputs ==
    [sids |-> {}, uids |-> {}, datas |-> {}, sttls |-> {},
     keys |-> {}, values |-> {}, cttls |-> {}, patterns |-> {},
     msids |-> {}, extensions |-> {}, skeys |-> {}, svalues |-> {},
     workers |-> {}, getters |-> {}, initers |-> {}, defaults |-> {},
     userids |-> {}, usernames |-> {}, emails |-> {},
     threads |-> {}, tkeys |-> {}, tsids |-> {}, tcalls |-> {}, savers |-> {},
     mainsids |-> {}, txthreads |-> {}, closers |-> {}, integration |-> FALSE,
     lifecycle |-> FALSE, horizon |-> MaxTime,
     faults |-> {FALSE}, upkeep |-> FALSE]

(* The arguments the callers of a workload pass                            *)
Inputs(w) ==
    CASE w = "sessions" ->
           [NoInputs EXCEPT !.sids = SessionIds, !.uids = UserIds, !.datas = {DataPlain},
                            !.sttls = Ttls, !.faults = BOOLEAN, !.upkeep = TRUE]
      [] w = "cache" ->
           [NoInputs EXCEPT !.keys = CacheKeys, !.values = {DataPlain}, !.cttls = Ttls,
                            !.patterns = {None}, !.faults = BOOLEAN, !.upkeep = TRUE]
      [] w = "json" ->
           [NoInputs EXCEPT !.sids = {"s1"}, !.uids = {"u1"}, !.datas = JsonData,
                            !.sttls = Ttls, !.faults = BOOLEAN, !.upkeep = TRUE]
      [] w = "like" ->
           [NoInputs EXCEPT !.keys = WildKeys, !.values = {PyInt(1)},
                            !.cttls = {Some(2)}, !.patterns = Patterns]
      [] w = "boundary" ->
           [NoInputs EXCEPT !.keys = EdgeKeys, !.values = {PyStr("v")},
                            !.cttls = {Some(1)}, !.skeys = {"config."},
                            !.svalues = {PyNone}]
      [] w = "writes" ->
           [NoInputs EXCEPT !.keys = {<<"a">>}, !.values = {DataPlain, DataSet},
                            !.cttls = {Some(1)}, !.skeys = SettingKeys,
                            !.svalues = {DataPlain, DataSet}, !.faults = BOOLEAN]
      [] w = "threads" ->
           [NoInputs EXCEPT !.workers = Workers, !.uids = {"u1"},
                            !.datas = {DataPlain, DataList}, !.sttls = {Some(1)},
                            !.faults = BOOLEAN]
      [] w = "singleton" ->
           [NoInputs EXCEPT !.getters = Workers]
      [] w = "sweeper" ->
           [NoInputs EXCEPT !.sids = {"s1"}, !.uids = {"u1"}, !.datas = {DataPlain},
                            !.sttls = {Some(1), Some(2)}, !.keys = {<<"a">>},
                            !.values = {DataPlain}, !.cttls = {Some(1), Some(2)},
                            !.upkeep = TRUE, !.horizon = 2 * CleanupInterval]
      [] w = "lifecycle" ->
           [NoInputs EXCEPT !.lifecycle = TRUE, !.upkeep = TRUE,
                            !.horizon = 2 * CleanupInterval]
      [] w = "schema" ->
           [NoInputs EXCEPT !.initers = {Main}, !.faults = BOOLEAN]
      [] w = "settings" ->
           [NoInputs EXCEPT !.skeys = SettingKeys,
                            !.svalues = {DataPlain, DataTuple, PyNone},
                            !.defaults = {PyNone, PyStr("d")}, !.faults = BOOLEAN]
      [] w = "users" ->
           [NoInputs EXCEPT !.userids = {"u1", "u2"},
                            !.usernames = {None, Some("ann"), Some("bob")},
                            !.emails = {None, Some("a@x"), Some("b@x")},
                            !.faults = BOOLEAN]
      [] w = "counter" ->
           [NoInputs EXCEPT !.threads = Workers, !.tkeys = {<<"a">>}, !.faults = BOOLEAN]
      [] w = "oneid" ->
           [NoInputs EXCEPT !.savers = Workers, !.threads = Workers, !.tsids = {"s1"},
                            !.tcalls = {<<"get_session", PyNone>>}, !.mainsids = {"s1"},
                            !.faults = BOOLEAN]
      [] w = "inflight" ->
           [NoInputs EXCEPT !.threads = {<<"worker", 1>>}, !.tsids = {"s1"},
                            !.tcalls = {<<"mgr_get_session", PyNone>>,
                                        <<"update_session", DataList>>,
                                        <<"extend_session", None>>},
                            !.mainsids = {"s1"}]
      [] w = "merging" ->
           [NoInputs EXCEPT !.threads = Workers, !.tsids = {"s1"},
                            !.tcalls = {<<"update_session", DataList>>,
                                        <<"update_session", DataOther>>}]
      [] w = "sweeprace" ->
           [NoInputs EXCEPT !.threads = {<<"worker", 1>>}, !.tsids = {"s1"},
                            !.tcalls = {<<"get_session", PyNone>>},
                            !.tkeys = {<<"a">>}, !.mainsids = {"s1"},
                            !.keys = {<<"a">>}, !.faults = BOOLEAN, !.upkeep = TRUE]
      [] w = "cleanup" ->
           [NoInputs EXCEPT !.integration = TRUE, !.mainsids = {"s1", "s2"},
                            !.keys = CacheKeys, !.faults = BOOLEAN, !.upkeep = TRUE]
      [] w = "reclaim" ->
           [NoInputs EXCEPT !.faults = BOOLEAN, !.upkeep = TRUE]
      [] w = "locks" ->
           [NoInputs EXCEPT !.txthreads = {Main, <<"worker", 1>>},
                            !.userids = {"u1", "u2"}, !.usernames = {Some("ann")},
                            !.emails = {None}, !.tsids = {"s1"}, !.uids = {"u1"},
                            !.datas = {DataPlain, DataSet}, !.sttls = {Some(1)}]
      [] w = "accessors" ->
           [NoInputs EXCEPT !.getters = Workers, !.closers = Workers]
      [] w = "ticking" ->
           [NoInputs EXCEPT !.lifecycle = TRUE, !.upkeep = TRUE, !.faults = BOOLEAN,
                            !.horizon = 2 * CleanupInterval]
      [] w = "ownership" ->
           [NoInputs EXCEPT !.sids = {"s1"}, !.uids = {"u1"},
                            !.datas = {DataPlain, DataEmpty},
                            !.sttls = {Some(2)}, !.msids = {"s1"},
                            !.extensions = {None}, !.faults = BOOLEAN,
                            !.upkeep = TRUE]
      [] w = "manager" ->
           [NoInputs EXCEPT !.msids = {"s1"}, !.uids = {"u1"},
                            !.extensions = {None, Some(0), Some(2)},
                            !.faults = BOOLEAN, !.upkeep = TRUE]

In == Inputs(workload)

(* A store that already holds one cache row and one setting                *)
StoreWithCacheRow ==
    /\ sessions = EmptyTable
    /\ cache = Upsert(EmptyTable, <<"a">>, CacheRow(DataPlain, Some(1), 0))
    /\ hits = Upsert(EmptyTable, <<"a">>, 0)
    /\ settings = Upsert(EmptyTable, "theme", SettingRow(PyStr("dark"), None, 0))
    /\ lastSetting = Upsert(EmptyTable, "theme", PyStr("dark"))
    /\ lastSaved = EmptyTable

(* A store that already holds one session and one setting                  *)
StoreWithSessionRow ==
    /\ sessions = Upsert(EmptyTable, "s1", SessionRow("u1", DataPlain, Some(1), 0))
    /\ lastSaved = Upsert(EmptyTable, "s1", DataPlain)
    /\ cache = EmptyTable
    /\ hits = EmptyTable
    /\ settings = Upsert(EmptyTable, "theme", SettingRow(PyStr("dark"), None, 0))
    /\ lastSetting = Upsert(EmptyTable, "theme", PyStr("dark"))

(* A fresh store: _init_database has created the empty tables              *)
EmptyStore ==
    /\ sessions = EmptyTable
    /\ cache = EmptyTable
    /\ settings = EmptyTable
    /\ lastSaved = EmptyTable
    /\ hits = EmptyTable
    /\ lastSetting = EmptyTable

(* The process after Database() has run on the main thread: __init__ has   *)
(* opened the main thread's connection to create the tables                *)
DatabaseConstructed ==
    /\ local = [t \in AllThreads |-> IF t = Main THEN 1 ELSE 0]
    /\ owner = <<Main>>
    /\ opened = {1}
    /\ used = {<<1, Main>>}
    /\ dbInstance = 1
    /\ dbLock = None
    /\ constructed = 1
    /\ schema = AllTables

(* The process before the first get_database()                             *)
NoDatabaseYet ==
    /\ local = [t \in AllThreads |-> 0]
    /\ owner = <<>>
    /\ opened = {}
    /\ used = {}
    /\ dbInstance = 0
    /\ dbLock = None
    /\ constructed = 0
    /\ schema = {}

(* No WindowsSessionManager has been built                                 *)
NoManager ==
    /\ managers = <<>>
    /\ sessionManager = 0
    /\ caller = None

(* The process after get_session_manager(): the manager's cleanup thread   *)
(* is in its first wait                                                    *)
ManagerRunning ==
    /\ managers = <<NewManager(0)>>
    /\ sessionManager = 1
    /\ caller = None

Init ==
    /\ now = 0
    /\ writer = None
    /\ users = EmptyTable
    /\ deleted = {}
    /\ updates = EmptyTable
    /\ ret = Ret("init", None, PyNone, None, PyNone, FALSE)
    /\ pc = [t \in Workers |-> "idle"]
    /\ job = [t \in Workers |-> None]
    /\ \/ workload = "sessions" /\ StoreWithCacheRow /\ DatabaseConstructed /\ NoManager
       \/ workload = "cache" /\ StoreWithSessionRow /\ DatabaseConstructed /\ NoManager
       \/ /\ workload \in {"json", "like", "manager", "boundary", "writes", "threads",
                           "lifecycle"}
          /\ EmptyStore
          /\ DatabaseConstructed
          /\ NoManager
       \/ workload = "singleton" /\ EmptyStore /\ NoDatabaseYet /\ NoManager
       \/ workload = "sweeper" /\ EmptyStore /\ DatabaseConstructed /\ ManagerRunning

----------------------------------------------------------------------------
(* The calls                                                               *)

SaveSession ==
    /\ UNCHANGED <<workload, writer, moreVars, concurrency>>
    /\ \E sid \in In.sids, uid \in In.uids, data \in In.datas, ttl \in In.sttls,
       fault \in In.faults : DbSaveSession(sid, uid, data, ttl, fault)

GetSession ==
    /\ UNCHANGED <<workload, writer, moreVars, concurrency>>
    /\ \E sid \in In.sids, fault \in In.faults : DbGetSession(sid, fault)

DeleteSession ==
    /\ UNCHANGED <<workload, writer, moreVars, concurrency>>
    /\ \E sid \in In.sids \cup In.msids, fault \in In.faults : DbDeleteSession(sid, fault)

GetUserSessions ==
    /\ UNCHANGED <<workload, writer, moreVars, concurrency>>
    /\ \E uid \in In.uids, fault \in In.faults : In.sids # {} /\ DbGetUserSessions(uid, fault)

SetCache ==
    /\ UNCHANGED <<workload, writer, moreVars, concurrency>>
    /\ \E key \in In.keys, value \in In.values, ttl \in In.cttls, fault \in In.faults :
       DbSetCache(key, value, ttl, fault)

GetCache ==
    /\ UNCHANGED <<workload, writer, moreVars, concurrency>>
    /\ \E key \in In.keys, fault \in In.faults : DbGetCache(key, fault)

DeleteCache ==
    /\ UNCHANGED <<workload, writer, moreVars, concurrency>>
    /\ \E key \in In.keys, fault \in In.faults : In.upkeep /\ DbDeleteCache(key, fault)

ClearCache ==
    /\ UNCHANGED <<workload, writer, moreVars, concurrency>>
    /\ \E pattern \in In.patterns, fault \in In.faults : DbClearCache(pattern, fault)

SetSetting ==
    /\ UNCHANGED <<workload, writer, schema, users, historyVars, concurrency>>
    /\ \E key \in In.skeys, value \in In.svalues, fault \in In.faults :
       DbSetSetting(key, value, None, fault)

CleanupExpired ==
    /\ UNCHANGED <<workload, writer, moreVars, concurrency>>
    /\ \E fault \in In.faults : In.upkeep /\ DbCleanupExpired(fault)

GetStats ==
    /\ UNCHANGED <<workload, writer, moreVars, concurrency>>
    /\ \E fault \in In.faults : In.upkeep /\ DbGetStats(fault)

CreateSession ==
    /\ UNCHANGED <<workload, writer, moreVars, concurrency>>
    /\ \E sid \in In.msids, uid \in In.uids, fault \in In.faults :
       MgrCreateSession(sid, uid, DataPlain, fault)

ManagerGetSession ==
    /\ UNCHANGED <<workload, writer, moreVars, concurrency>>
    /\ \E sid \in In.msids, fault \in In.faults, fault2 \in In.faults :
       MgrGetSession(sid, fault, fault2)

UpdateSession ==
    /\ UNCHANGED <<workload, writer, moreVars, concurrency>>
    /\ \E sid \in In.msids, fault \in In.faults, fault2 \in In.faults :
       MgrUpdateSession(sid, DataList, fault, fault2)

ExtendSession ==
    /\ UNCHANGED <<workload, writer, moreVars, concurrency>>
    /\ \E sid \in In.msids, additional_time \in In.extensions, fault \in In.faults,
       fault2 \in In.faults : MgrExtendSession(sid, additional_time, fault, fault2)

(* The session id a worker thread saves: its own                           *)
SidOf(t) == IF t[2] = 1 THEN "s1" ELSE "s2"

WorkerPreparesSave ==
    /\ UNCHANGED <<workload, writer, moreVars, sweeperVars>>
    /\ \E t \in In.workers, uid \in In.uids, data \in In.datas, ttl \in In.sttls :
       ThreadPrepareSave(t, SidOf(t), uid, data, ttl)

WorkerWritesSave ==
    /\ UNCHANGED <<workload, writer, moreVars, sweeperVars>>
    /\ \E t \in In.workers, fault \in In.faults : ThreadWriteSave(t, fault)

WorkerGetsSession ==
    /\ UNCHANGED <<workload, writer, moreVars, sweeperVars>>
    /\ \E t \in In.workers, sid \in SessionIds, fault \in In.faults :
       ThreadGetSession(t, sid, fault)

WorkerCloses ==
    /\ UNCHANGED <<workload, writer, moreVars, sweeperVars>>
    /\ \E t \in In.workers : ThreadClose(t)

GetDatabaseChecks ==
    /\ UNCHANGED <<workload, writer, moreVars, sweeperVars>>
    /\ \E t \in In.getters : GdbFirstCheck(t)

GetDatabaseLocks ==
    /\ UNCHANGED <<workload, writer, moreVars, sweeperVars>>
    /\ \E t \in In.getters : GdbAcquire(t)

GetDatabaseConstructs ==
    /\ UNCHANGED <<workload, writer, users, lastSetting, historyVars, sweeperVars>>
    /\ \E t \in In.getters : GdbConstruct(t)

GetDatabaseReturns ==
    /\ UNCHANGED <<workload, writer, moreVars, sweeperVars>>
    /\ \E t \in In.getters : GdbReturn(t)

GetSessionManager ==
    /\ UNCHANGED <<workload, writer, moreVars>>
    /\ In.lifecycle /\ GetSessionManagerCall

ManagerShutdown ==
    /\ UNCHANGED <<workload, writer, moreVars>>
    /\ \E m \in 1..Len(managers) : In.lifecycle /\ BeginShutdown(m, "shutdown")

ShutdownSessionManager ==
    /\ UNCHANGED <<workload, writer, moreVars>>
    /\ In.lifecycle
    /\ \/ sessionManager # 0 /\ BeginShutdown(sessionManager, "shutdown_session_manager")
       \/ ShutdownNothing

ShutdownJoinReturns ==
    /\ UNCHANGED <<workload, writer, moreVars>>
    /\ JoinReturns

SweeperWakesUp ==
    /\ UNCHANGED <<workload, writer, moreVars>>
    /\ \E m \in 1..Len(managers) : SweeperWakes(m)

SweeperRunsPass ==
    /\ UNCHANGED <<workload, writer, moreVars>>
    /\ \E m \in 1..Len(managers), fault \in In.faults : SweeperTicks(m, fault)

SweeperEnds ==
    /\ UNCHANGED <<workload, writer, moreVars>>
    /\ \E m \in 1..Len(managers) : SweeperStops(m)

(* The clock advances when no cleanup thread has something to do at the    *)
(* present time: a wait that is over ends at once, and a pass takes less   *)
(* than one tick of the clock                                              *)
TimePasses ==
    /\ UNCHANGED <<workload, writer, moreVars, concurrency>>
    /\ In.upkeep /\ ~SweeperBusy /\ Tick(In.horizon)

Next ==
    \/ SaveSession
    \/ GetSession
    \/ DeleteSession
    \/ GetUserSessions
    \/ SetCache
    \/ GetCache
    \/ DeleteCache
    \/ ClearCache
    \/ SetSetting
    \/ CleanupExpired
    \/ GetStats
    \/ CreateSession
    \/ ManagerGetSession
    \/ UpdateSession
    \/ ExtendSession
    \/ WorkerPreparesSave
    \/ WorkerWritesSave
    \/ WorkerGetsSession
    \/ WorkerCloses
    \/ GetDatabaseChecks
    \/ GetDatabaseLocks
    \/ GetDatabaseConstructs
    \/ GetDatabaseReturns
    \/ GetSessionManager
    \/ ManagerShutdown
    \/ ShutdownSessionManager
    \/ ShutdownJoinReturns
    \/ SweeperWakesUp
    \/ SweeperRunsPass
    \/ SweeperEnds
    \/ TimePasses

Spec == Init /\ [][Next]_vars

----------------------------------------------------------------------------
(* The second group of workloads: schema initialization, settings, users,  *)
(* and calls of several threads that interleave statement by statement     *)

(* A store written by an earlier version, which had no users and no chats  *)
(* table: one session, one cache row, one setting                          *)
StoreOfOlderVersion ==
    /\ sessions = Upsert(EmptyTable, "s1", SessionRow("u1", DataPlain, Some(1), 0))
    /\ lastSaved = Upsert(EmptyTable, "s1", DataPlain)
    /\ cache = Upsert(EmptyTable, <<"a">>, CacheRow(DataPlain, Some(1), 0))
    /\ hits = Upsert(EmptyTable, <<"a">>, 0)
    /\ settings = Upsert(EmptyTable, "theme", SettingRow(PyStr("dark"), None, 0))
    /\ lastSetting = Upsert(EmptyTable, "theme", PyStr("dark"))
    /\ users = EmptyTable
    /\ schema = {"sessions", "cache", "settings"}

(* A store with one cache row that was never read                          *)
StoreWithUnreadCacheRow ==
    /\ sessions = EmptyTable
    /\ lastSaved = EmptyTable
    /\ cache = Upsert(EmptyTable, <<"a">>, CacheRow(DataPlain, Some(1), 0))
    /\ hits = Upsert(EmptyTable, <<"a">>, 0)
    /\ settings = EmptyTable
    /\ lastSetting = EmptyTable
    /\ users = EmptyTable
    /\ schema = AllTables

(* A store with the session create_session("u1", {"a": 1}) has written     *)
StoreWithManagedSession ==
    /\ sessions = Upsert(EmptyTable, "s1",
                         SessionRow("u1", NewSessionData("u1", DataPlain, 0),
                                    Some(SessionTimeout), 0))
    /\ lastSaved = Upsert(EmptyTable, "s1", NewSessionData("u1", DataPlain, 0))
    /\ cache = EmptyTable
    /\ hits = EmptyTable
    /\ settings = EmptyTable
    /\ lastSetting = EmptyTable
    /\ users = EmptyTable
    /\ schema = AllTables

(* A store with one session and one cache row that expire at time 1        *)
StoreWithExpiringRows ==
    /\ sessions = Upsert(EmptyTable, "s1", SessionRow("u1", DataPlain, Some(1), 0))
    /\ lastSaved = Upsert(EmptyTable, "s1", DataPlain)
    /\ cache = Upsert(EmptyTable, <<"a">>, CacheRow(DataPlain, Some(1), 0))
    /\ hits = Upsert(EmptyTable, <<"a">>, 0)
    /\ settings = EmptyTable
    /\ lastSetting = EmptyTable
    /\ users = EmptyTable
    /\ schema = AllTables

(* A store with sessions and cache rows that expire at time 1 and at time  *)
(* 2                                                                       *)
StoreWithTwoDeadlines ==
    /\ sessions = Upsert(Upsert(EmptyTable, "s1", SessionRow("u1", DataPlain, Some(1), 0)),
                         "s2", SessionRow("u1", DataList, Some(2), 0))
    /\ lastSaved = Upsert(Upsert(EmptyTable, "s1", DataPlain), "s2", DataList)
    /\ cache = Upsert(Upsert(EmptyTable, <<"a">>, CacheRow(DataPlain, Some(1), 0)),
                      <<"b">>, CacheRow(DataList, Some(2), 0))
    /\ hits = Upsert(Upsert(EmptyTable, <<"a">>, 0), <<"b">>, 0)
    /\ settings = EmptyTable
    /\ lastSetting = EmptyTable
    /\ users = EmptyTable
    /\ schema = AllTables

(* A store with rows in every table: sessions and cache rows that expire   *)
(* at time 1 and at time 3, a setting and a user                           *)
StoreWithEveryTable ==
    /\ sessions = Upsert(Upsert(EmptyTable, "s1", SessionRow("u1", DataPlain, Some(1), 0)),
                         "s2", SessionRow("u1", DataList, Some(3), 0))
    /\ lastSaved = Upsert(Upsert(EmptyTable, "s1", DataPlain), "s2", DataList)
    /\ cache = Upsert(Upsert(EmptyTable, <<"a">>, CacheRow(DataPlain, Some(1), 0)),
                      <<"b">>, CacheRow(DataList, Some(3), 0))
    /\ hits = Upsert(Upsert(EmptyTable, <<"a">>, 0), <<"b">>, 0)
    /\ settings = Upsert(EmptyTable, "theme", SettingRow(PyStr("dark"), None, 0))
    /\ lastSetting = Upsert(EmptyTable, "theme", PyStr("dark"))
    /\ users = Upsert(EmptyTable, "u1", UserRow(Some("ann"), Some("a@x"), 0))
    /\ schema = AllTables

(* The process with its main thread's connection open                      *)
MainConnected ==
    /\ local = [t \in AllThreads |-> IF t = Main THEN 1 ELSE 0]
    /\ owner = <<Main>>
    /\ opened = {1}
    /\ used = {<<1, Main>>}
    /\ dbInstance = 1
    /\ dbLock = None
    /\ constructed = 1

Init2 ==
    /\ now = 0
    /\ writer = None
    /\ ret = Ret("init", None, PyNone, None, PyNone, FALSE)
    /\ pc = [t \in Workers |-> "idle"]
    /\ job = [t \in Workers |-> None]
    /\ NoManager
    /\ MainConnected
    /\ deleted = {}
    /\ updates = EmptyTable
    /\ \/ workload = "schema" /\ StoreOfOlderVersion
       \/ /\ workload \in {"settings", "users", "oneid"}
          /\ EmptyStore
          /\ users = EmptyTable
          /\ schema = AllTables
       \/ workload = "counter" /\ StoreWithUnreadCacheRow
       \/ workload \in {"inflight", "merging"} /\ StoreWithManagedSession
       \/ workload = "sweeprace" /\ StoreWithExpiringRows
       \/ workload = "cleanup" /\ StoreWithTwoDeadlines
       \/ workload = "reclaim" /\ StoreWithEveryTable

InitDatabase ==
    /\ UNCHANGED <<workload, writer, threadVars, singletonVars, sweeperVars>>
    /\ \E t \in In.initers, fault \in In.faults : DbInitDatabase(t, fault)

GetSetting ==
    /\ UNCHANGED <<workload, writer, schema, users, historyVars, concurrency>>
    /\ \E key \in In.skeys, default \in In.defaults, fault \in In.faults :
       DbGetSetting(key, default, fault)

ClearConfig ==
    /\ UNCHANGED <<workload, writer, schema, users, historyVars, concurrency>>
    /\ \E fault \in In.faults : In.defaults # {} /\ DbClearConfig(fault)

CreateUser ==
    /\ UNCHANGED <<workload, writer, concurrency>>
    /\ \E user_id \in In.userids, username \in In.usernames, email \in In.emails,
       fault \in In.faults : DbCreateUser(user_id, username, email, fault)

(* What each worker thread saves under the one session id: its own        *)
(* user_id, data and timeout                                               *)
SaveOf(t) ==
    IF t[2] = 1
    THEN [uid |-> "u1", data |-> DataPlain, ttl |-> Some(1)]
    ELSE [uid |-> "u2", data |-> DataList, ttl |-> Some(2)]

ThreadPreparesSave ==
    /\ UNCHANGED <<workload, writer, schema, users, lastSetting, sweeperVars>>
    /\ \E t \in In.savers, sid \in In.tsids :
       ThreadPrepareSave(t, sid, SaveOf(t).uid, SaveOf(t).data, SaveOf(t).ttl)
    /\ Track

ThreadWritesSave ==
    /\ UNCHANGED <<workload, writer, schema, users, lastSetting, sweeperVars>>
    /\ \E t \in In.savers, fault \in In.faults : ThreadWriteSave(t, fault)
    /\ Track

ThreadSelectsSession ==
    /\ UNCHANGED <<workload, writer, schema, users, lastSetting, sweeperVars>>
    /\ \E t \in In.threads, sid \in In.tsids, call \in In.tcalls, fault \in In.faults :
       ThreadSelectSession(t, call[1], sid, call[2], fault)
    /\ Track

MainGetsSession ==
    /\ UNCHANGED <<workload, writer, moreVars, concurrency>>
    /\ \E sid \in In.mainsids, fault \in In.faults : DbGetSession(sid, fault)

MainDeletesSession ==
    /\ UNCHANGED <<workload, writer, schema, users, lastSetting, concurrency>>
    /\ \E sid \in In.mainsids, fault \in In.faults : DbDeleteSession(sid, fault)
    /\ Track

ThreadSavesBack ==
    /\ UNCHANGED <<workload, writer, schema, users, lastSetting, sweeperVars>>
    /\ \E t \in In.threads, fault \in In.faults : ThreadSaveBack(t, fault)
    /\ Track

ThreadSelectsCache ==
    /\ UNCHANGED <<workload, writer, moreVars, sweeperVars>>
    /\ \E t \in In.threads, key \in In.tkeys, fault \in In.faults :
       ThreadSelectCache(t, key, fault)

ThreadTouches ==
    /\ UNCHANGED <<workload, writer, schema, users, lastSetting, sweeperVars>>
    /\ \E t \in In.threads, fault \in In.faults : ThreadTouch(t, fault)
    /\ Track

CleanupExpiredData ==
    /\ UNCHANGED <<workload, writer, moreVars, concurrency>>
    /\ \E sweepFault \in In.faults, clearFault \in In.faults :
       In.integration /\ IntCleanupExpiredData(sweepFault, clearFault)

Next2 ==
    \/ InitDatabase
    \/ ThreadPreparesSave
    \/ ThreadWritesSave
    \/ ThreadSelectsSession
    \/ ThreadSelectsCache
    \/ ThreadTouches
    \/ ThreadSavesBack
    \/ MainGetsSession
    \/ MainDeletesSession
    \/ CreateUser
    \/ SetSetting
    \/ GetSetting
    \/ ClearConfig
    \/ DeleteCache
    \/ CleanupExpired
    \/ TimePasses
    \/ GetCache
    \/ CleanupExpiredData

Spec2 == Init2 /\ [][Next2]_vars

----------------------------------------------------------------------------
(* The third group of workloads: transactions and write locks              *)

Init3 ==
    /\ now = 0
    /\ writer = None
    /\ ret = Ret("init", None, PyNone, None, PyNone, FALSE)
    /\ pc = [t \in Workers |-> "idle"]
    /\ job = [t \in Workers |-> None]
    /\ deleted = {}
    /\ updates = EmptyTable
    /\ users = EmptyTable
    /\ \/ workload = "locks" /\ EmptyStore /\ DatabaseConstructed /\ NoManager
       \/ workload = "accessors" /\ EmptyStore /\ NoDatabaseYet /\ NoManager
       \/ workload = "ownership" /\ EmptyStore /\ DatabaseConstructed /\ NoManager

TxnCreatesUser ==
    /\ UNCHANGED <<workload, schema, lastSetting, historyVars>>
    /\ UNCHANGED <<threadVars, singletonVars, sweeperVars>>
    /\ \E t \in In.txthreads, user_id \in In.userids, username \in In.usernames,
          email \in In.emails : TxnCreateUser(t, user_id, username, email)

TxnSavesSession ==
    /\ UNCHANGED <<workload, moreVars, threadVars, singletonVars, sweeperVars>>
    /\ \E t \in In.txthreads, sid \in In.tsids, uid \in In.uids, data \in In.datas,
          ttl \in In.sttls : TxnSaveSession(t, sid, uid, data, ttl)

GetDatabaseTests ==
    /\ UNCHANGED <<workload, writer, moreVars, sweeperVars>>
    /\ \E t \in In.closers : AccTest(t)

GetDatabaseBuilds ==
    /\ UNCHANGED <<workload, writer, users, lastSetting, historyVars, sweeperVars>>
    /\ \E t \in In.closers : constructed < MaxBuilt /\ GdbConstruct(t)

GetDatabaseUnlocks ==
    /\ UNCHANGED <<workload, writer, moreVars, sweeperVars>>
    /\ \E t \in In.closers : AccRelease(t)

GetDatabaseLoadsAndReturns ==
    /\ UNCHANGED <<workload, writer, moreVars, sweeperVars>>
    /\ \E t \in In.closers : AccReturn(t)

CloseDatabaseTests ==
    /\ UNCHANGED <<workload, writer, moreVars, sweeperVars>>
    /\ \E t \in In.closers : CloseTest(t)

CloseDatabaseCloses ==
    /\ UNCHANGED <<workload, writer, moreVars, sweeperVars>>
    /\ \E t \in In.closers : CloseCall(t)

CloseDatabaseAssigns ==
    /\ UNCHANGED <<workload, writer, moreVars, sweeperVars>>
    /\ \E t \in In.closers : CloseAssign(t)

Next3 ==
    \/ TxnCreatesUser
    \/ TxnSavesSession
    \/ GetDatabaseTests
    \/ GetDatabaseLocks
    \/ GetDatabaseBuilds
    \/ GetDatabaseUnlocks
    \/ GetDatabaseLoadsAndReturns
    \/ CloseDatabaseTests
    \/ CloseDatabaseCloses
    \/ CloseDatabaseAssigns
    \/ SaveSession
    \/ ManagerGetSession
    \/ UpdateSession
    \/ ExtendSession
    \/ GetUserSessions
    \/ TimePasses

Spec3 == Init3 /\ [][Next3]_vars

----------------------------------------------------------------------------
(* The cleanup thread under fair scheduling: a thread that can take its    *)
(* next step takes it, and the clock goes on                               *)

Init4 ==
    /\ now = 0
    /\ writer = None
    /\ ret = Ret("init", None, PyNone, None, PyNone, FALSE)
    /\ pc = [t \in Workers |-> "idle"]
    /\ job = [t \in Workers |-> None]
    /\ deleted = {}
    /\ updates = EmptyTable
    /\ users = EmptyTable
    /\ workload = "ticking"
    /\ EmptyStore
    /\ DatabaseConstructed
    /\ NoManager

Next4 ==
    \/ GetSessionManager
    \/ ManagerShutdown
    \/ ShutdownSessionManager
    \/ ShutdownJoinReturns
    \/ SweeperWakesUp
    \/ SweeperRunsPass
    \/ SweeperEnds
    \/ TimePasses

(* The steps of the cleanup thread of manager m                            *)
SweeperStep(m) ==
    /\ UNCHANGED <<workload, writer, moreVars>>
    /\ m \in 1..Len(managers)
    /\ \/ SweeperWakes(m)
       \/ \E fault \in In.faults : SweeperTicks(m, fault)
       \/ SweeperStops(m)

Spec4 ==
    /\ Init4
    /\ [][Next4]_vars
    /\ \A m \in 1..MaxManagers : WF_vars(SweeperStep(m))
    /\ WF_vars(TimePasses)

----------------------------------------------------------------------------
(* Vocabulary of the properties                                            *)

(* The row's deadline is none or lies after time t                         *)
Unexpired(row, t) == row.expires_at = None \/ row.expires_at[1] > t

(* The table without its rows whose deadline is at or before time t        *)
Purged(tbl, t) == [k \in {x \in DOMAIN tbl : Unexpired(tbl[x], t)} |-> tbl[k]]

(* A value made of JSON's own types only: none, booleans, numbers,         *)
(* strings, lists, and dicts with distinct string keys                     *)
RECURSIVE JsonNative(_)
JsonNative(v) ==
    CASE v[1] \in {"None", "bool", "int", "str"} -> TRUE
      [] v[1] = "list" -> \A i \in 1..Len(v[2]) : JsonNative(v[2][i])
      [] v[1] = "dict" ->
            /\ \A i \in 1..Len(v[2]) : v[2][i][1][1] = "str" /\ JsonNative(v[2][i][2])
            /\ \A i, j \in 1..Len(v[2]) : i # j => v[2][i][1] # v[2][j][1]
      [] OTHER -> FALSE

(* The last call was a Database.get_session that the storage engine served *)
(* on a row that is present and not expired                                *)
GotLiveSession ==
    /\ ret.op = "get_session"
    /\ ~ret.fault
    /\ ret.key \in DOMAIN sessions
    /\ Unexpired(sessions[ret.key], now)

----------------------------------------------------------------------------
C2_ReadPathChecksExpiry ==
    /\ ret.op = "get_session" =>
          /\ ret.val # PyNone => ret.key \in DOMAIN sessions /\ Unexpired(sessions[ret.key], now)
          /\ (ret.key \in DOMAIN sessions /\ ~Unexpired(sessions[ret.key], now)) => ret.val = PyNone
    /\ ret.op = "get_cache" =>
          /\ ret.val # PyNone => ret.key \in DOMAIN cache /\ Unexpired(cache[ret.key], now)
          /\ (ret.key \in DOMAIN cache /\ ~Unexpired(cache[ret.key], now)) => ret.val = PyNone

(* C2 witness: a get_cache at the very deadline of a row that the sweeper  *)
(* has not removed returned none                                           *)
C2_Witness ==
    /\ ret.op = "get_cache"
    /\ ~ret.fault
    /\ ret.key \in DOMAIN cache
    /\ cache[ret.key].expires_at = Some(now)
    /\ ret.val = PyNone

(* C3: every read gives the same result as it would with every expired     *)
(* row removed: get_session, get_user_sessions, get_cache, the counts of   *)
(* get_stats and total_sessions of get_session_stats.  This is the claim   *)
(* as made; the counts include the expired rows that are not swept yet.    *)
C3_ExpiredRowsInvisible ==
    LET pss == Purged(sessions, now)
        pch == Purged(cache, now)
    IN /\ \A sid \in DOMAIN sessions :
             GetSessionResult(sessions, sid, now) = GetSessionResult(pss, sid, now)
       /\ \A uid \in UserIds :
             GetUserSessionsResults(sessions, uid, now) = GetUserSessionsResults(pss, uid, now)
       /\ \A key \in DOMAIN cache :
             GetCacheResult(cache, key, now) = GetCacheResult(pch, key, now)
       /\ GetStatsResult(sessions, cache) = GetStatsResult(pss, pch)
       /\ TotalSessions(sessions, cache) = TotalSessions(pss, pch)

(* C4: save_session with ttl none returns true and stores the row with     *)
(* expires_at none.  This is the claim as made; timedelta(seconds=None)    *)
(* raises, so the call returns false and stores nothing.                   *)
C4_UnboundedTtlAccepted ==
    (/\ ret.op = "save_session"
     /\ ret.ttl = None
     /\ ~ret.fault
     /\ Serializable(ret.data))
    => /\ ret.val = PyTrue
       /\ ret.key \in DOMAIN sessions
       /\ sessions[ret.key].expires_at = None

(* C5: after set_cache(key) and n get_cache hits on the key with no set    *)
(* or delete of it in between, the row's access_count is n; a set_cache    *)
(* puts it back to 0.                                                      *)
C5_AccessCounting ==
    /\ \A key \in DOMAIN cache : cache[key].access_count = hits[key]
    /\ (ret.op = "set_cache" /\ ret.val = PyTrue) =>
          ret.key \in DOMAIN cache /\ cache[ret.key].access_count = 0

(* C5 witness: the second hit in a row has been counted                    *)
C5_Witness ==
    /\ ret.op = "get_cache"
    /\ ret.val # PyNone
    /\ hits[ret.key] = 2
    /\ cache[ret.key].access_count = 2

(* The pattern occurs in the text, character for character                 *)
Contains(text, pattern) ==
    \E i \in 1..(Len(text) + 1) :
       /\ i + Len(pattern) - 1 <= Len(text)
       /\ SubSeq(text, i, i + Len(pattern) - 1) = pattern

(* The step is a clear_cache(pattern) with a non-empty pattern that the    *)
(* storage engine served                                                   *)
ClearedByPattern ==
    /\ ret'.op = "clear_cache"
    /\ ~ret'.fault
    /\ ret'.key # None
    /\ ret'.key[1] # <<>>

(* C6: clear_cache(p) with a non-empty p removes exactly the rows whose    *)
(* key contains p as a literal substring and leaves every other row as it  *)
(* was.  This is the claim as made; LIKE reads _ and % in p as wildcards   *)
(* and ignores the case of letters, so other keys go too.                  *)
C6_ClearIsLiteralSubstring ==
    [][ClearedByPattern =>
          cache' = Without(cache, {k \in DOMAIN cache : Contains(k, ret'.key[1])})]_vars

(* C7: clear_cache returns the number of cache rows it removed; without a  *)
(* pattern it removes every cache row, expired or live; it changes no      *)
(* session or settings row; on a storage failure it returns 0.             *)
C7_ClearCacheCountAndFrame ==
    [][ret'.op = "clear_cache" =>
          /\ DOMAIN cache' \subseteq DOMAIN cache
          /\ \A k \in DOMAIN cache' : cache'[k] = cache[k]
          /\ ret'.val = PyInt(Cardinality(DOMAIN cache \ DOMAIN cache'))
          /\ (ret'.key = None /\ ~ret'.fault) => DOMAIN cache' = {}
          /\ ret'.fault => ret'.val = PyInt(0)
          /\ sessions' = sessions
          /\ settings' = settings]_vars

(* C7 witness: clear_cache() has removed both cache rows and returned 2,   *)
(* beside a session row and a settings row                                 *)
C7_Witness ==
    /\ ret.op = "clear_cache"
    /\ ret.key = None
    /\ ret.val = PyInt(2)
    /\ DOMAIN cache = {}
    /\ DOMAIN sessions # {}
    /\ DOMAIN settings # {}

(* The step is a delete_session / delete_cache that reports what it did:   *)
(* true exactly when a row with the id / key existed and the call removed  *)
(* it, false when there was no such row; no other row changes              *)
DeleteReports ==
    /\ ret'.op = "delete_session" =>
          /\ ret'.val = PyBool(ret'.key \in DOMAIN sessions /\ ret'.key \notin DOMAIN sessions')
          /\ ret'.key \notin DOMAIN sessions => ret'.val = PyFalse
          /\ DOMAIN sessions' \cup {ret'.key} = DOMAIN sessions \cup {ret'.key}
          /\ \A sid \in DOMAIN sessions' : sessions'[sid] = sessions[sid]
          /\ cache' = cache /\ settings' = settings
    /\ ret'.op = "delete_cache" =>
          /\ ret'.val = PyBool(ret'.key \in DOMAIN cache /\ ret'.key \notin DOMAIN cache')
          /\ ret'.key \notin DOMAIN cache => ret'.val = PyFalse
          /\ DOMAIN cache' \cup {ret'.key} = DOMAIN cache \cup {ret'.key}
          /\ \A key \in DOMAIN cache' : cache'[key] = cache[key]
          /\ sessions' = sessions /\ settings' = settings

(* The step is a get of an id / key that has no row, and it returns none   *)
GetOfAbsentIsNone ==
    /\ (ret'.op = "get_session" /\ ret'.key \notin DOMAIN sessions) => ret'.val = PyNone
    /\ (ret'.op = "get_cache" /\ ret'.key \notin DOMAIN cache) => ret'.val = PyNone

(* C8: delete_session / delete_cache return true exactly when a row with   *)
(* the id / key existed and the call removed it, false when there was no   *)
(* such row; after the call no row with the id / key exists, a get of it   *)
(* returns none, and no other row changes.  This is the claim as made; a   *)
(* delete that the storage engine fails returns false and leaves the row.  *)
C8_DeleteLeavesNoRow ==
    [][/\ DeleteReports
       /\ GetOfAbsentIsNone
       /\ ret'.op = "delete_session" => ret'.key \notin DOMAIN sessions'
       /\ ret'.op = "delete_cache" => ret'.key \notin DOMAIN cache']_vars

(* C8, amended: as C8, but the row is gone after every delete that the     *)
(* storage engine served; a delete that it failed returns false and        *)
(* changes nothing.                                                        *)
C8_DeleteReportsAndRemoves ==
    [][/\ DeleteReports
       /\ GetOfAbsentIsNone
       /\ (ret'.op = "delete_session" /\ ~ret'.fault) => ret'.key \notin DOMAIN sessions'
       /\ (ret'.op = "delete_cache" /\ ~ret'.fault) => ret'.key \notin DOMAIN cache'
       /\ (ret'.op \in {"delete_session", "delete_cache"} /\ ret'.fault) =>
             ret'.val = PyFalse /\ sessions' = sessions /\ cache' = cache]_vars

(* C8 witness: delete_session has returned true and the other session is   *)
(* still there                                                             *)
C8_Witness ==
    /\ ret.op = "delete_session"
    /\ ret.val = PyTrue
    /\ ret.key \notin DOMAIN sessions
    /\ DOMAIN sessions # {}

(* The step is a Database.get_session that returned the row's data         *)
SessionHit ==
    /\ ret'.op = "get_session"
    /\ ret'.val # PyNone
    /\ ret'.key \in DOMAIN sessions
    /\ ret'.key \in DOMAIN sessions'

(* C9: whenever get_session succeeds, the row's updated_at after the call  *)
(* is strictly greater than before.  This is the claim as made; a read in  *)
(* the clock tick of the row's last write leaves updated_at equal.         *)
C9_UpdatedAtStrictlyIncreases ==
    [][SessionHit => sessions'[ret'.key].updated_at > sessions[ret'.key].updated_at]_vars

(* C9, amended: whenever get_session succeeds, the row's updated_at after  *)
(* the call is the clock reading of the call: never less than before, and  *)
(* greater exactly when the clock has advanced since the row was last      *)
(* written or read.                                                        *)
C9_UpdatedAtIsReadTime ==
    [][SessionHit =>
          /\ sessions'[ret'.key].updated_at = now
          /\ sessions'[ret'.key].updated_at >= sessions[ret'.key].updated_at
          /\ (sessions'[ret'.key].updated_at > sessions[ret'.key].updated_at)
                <=> (now > sessions[ret'.key].updated_at)]_vars

(* C9 witness: a get_session has hit a row later than the tick of its save *)
C9_Witness ==
    /\ ret.op = "get_session"
    /\ ret.val # PyNone
    /\ ret.key \in DOMAIN sessions
    /\ sessions[ret.key].updated_at > sessions[ret.key].created_at

(* C10: every successful WindowsSessionManager.get_session leaves the      *)
(* session's expires_at no earlier than it was.  This is the claim as      *)
(* made; the read saves the row with now + session_timeout, which is       *)
(* earlier than the deadline a longer extend_session had set.              *)
C10_AccessNeverShortensDeadline ==
    [][(/\ ret'.op = "mgr_get_session"
        /\ ret'.val # PyNone
        /\ ret'.key \in DOMAIN sessions
        /\ ret'.key \in DOMAIN sessions')
       => sessions'[ret'.key].expires_at[1] >= sessions[ret'.key].expires_at[1]]_vars

(* C11: get_user_sessions(user) returns exactly the session rows whose     *)
(* user_id is user and whose expires_at is none or in the future, each     *)
(* once and as stored, ordered by updated_at from the most recent to the   *)
(* oldest; a query the storage engine fails returns the empty list.        *)
C11_UserSessionsExactAndOrdered ==
    ret.op = "get_user_sessions" =>
       LET q == ret.val[2]
       IN IF ret.fault
          THEN q = <<>>
          ELSE /\ {q[i].session_id : i \in 1..Len(q)} =
                     {sid \in DOMAIN sessions :
                         sessions[sid].user_id = ret.key /\ Unexpired(sessions[sid], now)}
               /\ \A i, j \in 1..Len(q) : i # j => q[i].session_id # q[j].session_id
               /\ \A i, j \in 1..Len(q) : i < j => q[i].updated_at >= q[j].updated_at
               /\ \A i \in 1..Len(q) :
                     LET row == sessions[q[i].session_id]
                     IN /\ q[i].data = json_loads(row.data)
                        /\ q[i].created_at = row.created_at
                        /\ q[i].updated_at = row.updated_at
                        /\ q[i].expires_at = row.expires_at

(* C11 witness: the list holds two sessions of the user, the one updated   *)
(* later first                                                             *)
C11_Witness ==
    /\ ret.op = "get_user_sessions"
    /\ Len(ret.val[2]) = 2
    /\ ret.val[2][1].updated_at > ret.val[2][2].updated_at

(* C12: a failed write changes nothing: save_session, set_cache and        *)
(* set_setting return true or false and never raise; they return false     *)
(* when the value is not serializable or the storage engine fails; and     *)
(* after a call that returned false every row of every table, the one at   *)
(* the call's key included, is what it was before the call.                *)
C12_FailedWriteChangesNothing ==
    [][ret'.op \in {"save_session", "set_cache", "set_setting"} =>
          /\ ret'.val \in {PyTrue, PyFalse}
          /\ (ret'.fault \/ ~Serializable(ret'.data)) => ret'.val = PyFalse
          /\ ret'.val = PyFalse =>
                sessions' = sessions /\ cache' = cache /\ settings' = settings]_vars

(* C12 witness: a set_setting of a value json.dumps rejects has returned   *)
(* false on a key that holds a row                                         *)
C12_Witness ==
    /\ ret.op = "set_setting"
    /\ ~ret.fault
    /\ ~Serializable(ret.data)
    /\ ret.val = PyFalse
    /\ ret.key \in DOMAIN settings

(* C13: the empty key is rejected: set_cache("", v) returns false and      *)
(* stores no row, get_cache("") returns none, and a set_setting under the  *)
(* key set_config_value("", v) builds, "config.", returns false.  This is  *)
(* the claim as made; no method tests its key, and "" is a key like any    *)
(* other to the tables.                                                    *)
C13_EmptyKeyRejected ==
    /\ <<>> \notin DOMAIN cache
    /\ (ret.op = "set_cache" /\ ret.key = <<>>) => ret.val = PyFalse
    /\ (ret.op = "get_cache" /\ ret.key = <<>>) => ret.val = PyNone
    /\ (ret.op = "set_setting" /\ ret.key = "config.") => ret.val = PyFalse

(* C16: after a sweeper tick that the storage engine served no session     *)
(* row and no cache row is left whose expires_at is non-null and at or     *)
(* before the time of the tick.  This is the claim as made; the DELETEs    *)
(* test expires_at < now, so a row whose deadline is the time of the tick  *)
(* stays.                                                                  *)
C16_SweepRemovesAtOrBeforeNow ==
    (ret.op = "_cleanup_expired" /\ ~ret.fault) =>
       /\ \A sid \in DOMAIN sessions : Unexpired(sessions[sid], now)
       /\ \A key \in DOMAIN cache : Unexpired(cache[key], now)

(* C14: save_session calls with pairwise distinct session ids, made by     *)
(* different threads and interleaved in any way: once a thread's save has  *)
(* returned true, the row at its id holds the data it passed and a         *)
(* get_session of the id returns exactly that data while the row has not   *)
(* expired; a get of the id never returns another thread's data; a save    *)
(* the storage engine failed has returned false and left no row.           *)
C14_ConcurrentSavesIsolated ==
    \A t \in Workers :
       pc[t] = "done" =>
          /\ job[t].result = PyTrue =>
                /\ job[t].sid \in DOMAIN sessions
                /\ json_loads(sessions[job[t].sid].data) = job[t].data
                /\ Unexpired(sessions[job[t].sid], now) =>
                      GetSessionResult(sessions, job[t].sid, now) = job[t].data
                /\ (ret.op = "get_session" /\ ret.key = job[t].sid /\ ~ret.fault
                    /\ Unexpired(sessions[job[t].sid], now)) => ret.val = job[t].data
          /\ job[t].result = PyFalse => job[t].sid \notin DOMAIN sessions
          /\ (ret.op = "get_session" /\ ret.key = job[t].sid) =>
                ret.val \in {PyNone, job[t].data}

(* C14 witness: the saves of both threads have returned true, they passed  *)
(* different data, and a get of the second id has returned the second      *)
(* thread's data                                                           *)
C14_Witness ==
    /\ \A t \in Workers : pc[t] = "done" /\ job[t].result = PyTrue
    /\ job[<<"worker", 1>>].data # job[<<"worker", 2>>].data
    /\ ret.op = "get_session"
    /\ ret.key = "s2"
    /\ ret.val = job[<<"worker", 2>>].data

(* The thread's connection, if it has one, is open and its own             *)
OwnConnection(t) ==
    local[t] # 0 => (local[t] \in opened /\ owner[local[t]] = t)

(* C20: each thread has at most one open connection; a connection is used  *)
(* only by the thread that opened it; Database.close() closes the calling  *)
(* thread's connection and no other, so that every other thread keeps its  *)
(* connection, open.                                                       *)
C20_ConnectionOwnership ==
    [][/\ \A t \in AllThreads : Cardinality({c \in opened' : owner'[c] = t}) <= 1
       /\ \A t \in AllThreads : OwnConnection(t)'
       /\ \A u \in used' : owner'[u[1]] = u[2]
       /\ ret'.op = "close" =>
             /\ opened' = opened \ {local[ret'.key]}
             /\ local'[ret'.key] = 0
             /\ \A t \in AllThreads \ {ret'.key} : local'[t] = local[t] /\ OwnConnection(t)']_vars

(* C20 witness: a worker thread has closed its connection while the other  *)
(* worker thread and the main thread keep theirs                           *)
C20_Witness ==
    /\ ret.op = "close"
    /\ ret.key = <<"worker", 1>>
    /\ local[<<"worker", 1>>] = 0
    /\ local[<<"worker", 2>>] \in opened
    /\ local[Main] \in opened
    /\ Cardinality(opened) = 2
    /\ Len(owner) = 3

(* A manager's cleanup thread is running and has not been told to stop     *)
SweeperRuns ==
    \E m \in 1..Len(managers) : Alive(m) /\ ~managers[m].stop

(* The rows of a table that carry an expiry                                *)
Expiring(tbl) == {k \in DOMAIN tbl : tbl[k].expires_at # None}

C17_AtMostOneSweeper ==
    Cardinality({m \in 1..Len(managers) : Alive(m)}) <= 1

(* C19: when shutdown returns while the cleanup thread is still alive,     *)
(* its join having timed out, it has logged a warning.                     *)
C19_TimeoutLogsWarning ==
    (ret.op = "shutdown" /\ ret.data = <<"thread", "ticking">>)
       => ret.val = <<"log", "warning">>

(* C18: however concurrent get_database() calls interleave, Database()     *)
(* runs exactly once; every caller gets that one instance; and a caller    *)
(* that arrives when the instance exists returns it without taking the     *)
(* lock and without constructing.                                          *)
C18_SingletonConstructedOnce ==
    [][/\ constructed' <= 1
       /\ constructed' >= constructed
       /\ dbInstance' # 0 => constructed' = 1
       /\ \A t \in Workers :
             /\ pc'[t] = "returned" => (job'[t] = Some(dbInstance') /\ dbInstance' # 0)
             /\ (ret'.op \in {"get_database", "get_database_waits"} /\ ret'.key = t
                 /\ pc[t] \in {"idle", "returned"} /\ dbInstance # 0) =>
                   /\ pc'[t] = "returned"
                   /\ dbLock' = dbLock
                   /\ constructed' = constructed]_vars

(* C18 witness: both threads found no instance and went for the lock; one  *)
(* constructed, and both have returned the same instance                   *)
C18_Witness ==
    /\ workload = "singleton"
    /\ constructed = 1
    /\ \A t \in Workers : pc[t] = "returned" /\ job[t] = Some(dbInstance)
    /\ ret.op = "get_database"
    /\ Len(owner) = 1

----------------------------------------------------------------------------
(* Properties of the second group of workloads                             *)

(* C21: _init_database, run any number of times on a store that holds      *)
(* session, cache and settings rows, leaves every row of every table as it *)
(* was and drops no table.                                                 *)
C21_InitIsIdempotent ==
    [][ret'.op = "_init_database" =>
          /\ sessions' = sessions
          /\ cache' = cache
          /\ settings' = settings
          /\ users' = users
          /\ schema \subseteq schema']_vars

(* C21 witness: _init_database has run on the populated store when every   *)
(* table was already there, that is, for at least the second time          *)
C21_Witness ==
    /\ ret.op = "_init_database"
    /\ ~ret.fault
    /\ ret.data = <<"had", AllTables>>
    /\ DOMAIN sessions # {} /\ DOMAIN cache # {} /\ DOMAIN settings # {}

(* What the settings history says get_setting should return                *)
SettingOrDefault(key, default) ==
    IF key \in DOMAIN lastSetting THEN lastSetting[key] ELSE default

C23_StatsArePurelyDerived ==
    [][ret'.op = "get_stats" =>
          /\ sessions' = sessions
          /\ cache' = cache
          /\ settings' = settings
          /\ users' = users
          /\ ret'.val = IF ret'.fault
                        THEN PyDict(<<>>)
                        ELSE <<"stats", [sessions_count |-> Cardinality(DOMAIN sessions),
                                         cache_count |-> Cardinality(DOMAIN cache)]>>]_vars

(* C23 witness: get_stats has counted a table that holds a row past its    *)
(* deadline, whose bookkeeping fields a read would have had to leave alone *)
C23_Witness ==
    /\ ret.op = "get_stats"
    /\ ~ret.fault
    /\ ret.val[2].cache_count = 1
    /\ \E k \in DOMAIN cache : ~Unexpired(cache[k], now) /\ cache[k].access_count > 0

(* The user_id, the username or the email of a create_user call is already *)
(* in the users table                                                      *)
AlreadyExists(user_id, username, email) ==
    \/ user_id \in DOMAIN users
    \/ username # None /\ \E k \in DOMAIN users : users[k].username = username[1]
    \/ email # None /\ \E k \in DOMAIN users : users[k].email = email

(* C24: create_user with a user_id, a username or an email that already    *)
(* exists returns false and leaves the users table as it was; with none of *)
(* them taken and no storage error it returns true and adds the row.       *)
C24_DuplicateUserIsRefused ==
    [][ret'.op = "create_user" =>
          LET username == ret'.data[1]
              email == ret'.data[2]
          IN /\ ret'.val \in {PyTrue, PyFalse}
             /\ AlreadyExists(ret'.key, username, email) => ret'.val = PyFalse
             /\ ret'.val = PyFalse => users' = users
             /\ (~AlreadyExists(ret'.key, username, email) /\ username # None /\ ~ret'.fault)
                   => /\ ret'.val = PyTrue
                      /\ DOMAIN users' = DOMAIN users \cup {ret'.key}
                      /\ \A k \in DOMAIN users : users'[k] = users[k]]_vars

(* C24 witness: a create_user with a fresh user_id and a fresh username    *)
(* was refused for its email alone                                         *)
C24_Witness ==
    /\ ret.op = "create_user"
    /\ ~ret.fault
    /\ ret.val = PyFalse
    /\ ret.key \notin DOMAIN users
    /\ ret.data[1] # None
    /\ \A k \in DOMAIN users : users[k].username # ret.data[1][1]
    /\ \E k \in DOMAIN users : users[k].email = ret.data[2]

(* C25: however the get_cache calls of several threads on one key          *)
(* interleave, the key's access_count is never negative and, with no set   *)
(* or delete of the key in between, equals the number of hits that have    *)
(* returned: none is lost or counted twice.                                *)
C25_NoHitIsLost ==
    \A key \in DOMAIN cache :
       /\ cache[key].access_count >= 0
       /\ cache[key].access_count = hits[key]

(* C25 witness: two get_cache calls on the key overlap: one has counted    *)
(* its hit and returned while the other, which has selected the row, has   *)
(* its UPDATE ahead                                                        *)
C25_Witness ==
    /\ workload = "counter"
    /\ ret.op = "get_cache"
    /\ ret.val = DataPlain
    /\ ret.data = <<"worker", 1>>
    /\ pc[<<"worker", 2>>] = "selected"
    /\ cache[<<"a">>].access_count = 1
    /\ hits[<<"a">>] = 1

(* The row is, column for column, what one thread's save_session writes    *)
RowOfOneSave(row) ==
    \E t \in Workers :
       /\ row.user_id = SaveOf(t).uid
       /\ row.data = json_dumps(SaveOf(t).data)
       /\ row.expires_at = ExpiresAt(row.created_at, SaveOf(t).ttl)

(* C26: however save_session, get_session and delete_session calls of      *)
(* several threads on one session id interleave, the stored row holds the  *)
(* user_id, data and expires_at of one save call, never a mix of two, and  *)
(* every get_session returns none or the data of one save call.            *)
C26_OneIdIsLinearizable ==
    workload = "oneid" =>
       /\ \A sid \in DOMAIN sessions : RowOfOneSave(sessions[sid])
       /\ ret.op = "get_session" =>
             \/ ret.val = PyNone
             \/ \E t \in Workers : ret.val = json_loads(json_dumps(SaveOf(t).data))

(* C26 witness: a get_session that selected the row of one thread's save   *)
(* returns that save's data after the other thread's save has replaced the *)
(* row                                                                     *)
C26_Witness ==
    /\ workload = "oneid"
    /\ ret.op = "get_session"
    /\ ret.data = <<"worker", 1>>
    /\ ret.val = json_loads(json_dumps(DataPlain))
    /\ "s1" \in DOMAIN sessions
    /\ sessions["s1"].user_id = "u2"
    /\ sessions["s1"].data = json_dumps(DataList)

(* C27: once delete_session of an id has returned true, and no             *)
(* save_session or create_session has written the id since, a get_session  *)
(* of the id that begins afterwards returns none.                          *)
C27_DeletedStaysDeleted ==
    (ret.op = "get_session" /\ ret.data = PyNone /\ ret.key \in deleted)
       => ret.val = PyNone

(* The stored data of a session holds the item                             *)
HoldsItem(row, item) ==
    DictGet(json_loads(row.data), item[1], <<"absent">>) = item[2]

(* C28: the stored data of a session holds every key and value that a      *)
(* successful update_session has merged in since the session's last        *)
(* delete, whatever manager calls on the session were in flight.           *)
C28_NoLostUpdate ==
    \A sid \in DOMAIN updates \cap DOMAIN sessions :
       \A i \in 1..Len(updates[sid]) : HoldsItem(sessions[sid], updates[sid][i])

(* The table a get in flight reads                                         *)
TableOf(j) == IF j.table = "sessions" THEN sessions ELSE cache

(* Thread t has selected a row for Database.get_session or get_cache, the  *)
(* row is gone, and this step is the get's bookkeeping UPDATE and return   *)
TouchesRemovedRow(t) ==
    /\ pc[t] = "selected"
    /\ pc'[t] # "selected"
    /\ job[t].fn \in {"get_session", "get_cache"}
    /\ job[t].key \notin DOMAIN TableOf(job[t])

(* C29: when the sweep or a delete has removed the row between the SELECT  *)
(* and the bookkeeping UPDATE of Database.get_session or get_cache, the    *)
(* get returns the value its SELECT read (none if the UPDATE raises), and  *)
(* the UPDATE leaves both tables as they are: the row is not re-created    *)
(* and the stored ids and keys do not change.                              *)
C29_GetSurvivesRemoval ==
    [][\A t \in Workers :
          TouchesRemovedRow(t) =>
             /\ ret'.op = job[t].fn
             /\ ret'.key = job[t].key
             /\ ret'.val = IF ret'.fault THEN PyNone ELSE job[t].got
             /\ sessions' = sessions
             /\ cache' = cache]_vars

(* C29 witness: a get_session has returned the data it read although the   *)
(* sweep, and no delete_session, removed the row before its UPDATE         *)
C29_Witness ==
    /\ workload = "sweeprace"
    /\ ret.op = "get_session"
    /\ ret.data \in Workers
    /\ ret.val = json_loads(json_dumps(DataPlain))
    /\ "s1" \notin DOMAIN sessions
    /\ "s1" \notin deleted
    /\ now > 0

(* C30: cleanup_expired_data() removes only expired data: every cache      *)
(* entry and every session that was not expired before the call is still   *)
(* stored after it, and get_cache and get_session still return its value.  *)
C30_CleanupRemovesOnlyExpired ==
    [][ret'.op = "cleanup_expired_data" =>
          /\ \A key \in DOMAIN cache :
                Unexpired(cache[key], now) =>
                   /\ CacheFound(cache', key, now)
                   /\ GetCacheResult(cache', key, now) = GetCacheResult(cache, key, now)
          /\ \A sid \in DOMAIN sessions :
                Unexpired(sessions[sid], now) =>
                   /\ SessionFound(sessions', sid, now)
                   /\ GetSessionResult(sessions', sid, now)
                         = GetSessionResult(sessions, sid, now)]_vars

----------------------------------------------------------------------------
(* Properties of the third group of claims                                 *)

(* The row has no deadline or one later than time t                        *)
LiveAt(row, t) == row.expires_at = None \/ row.expires_at[1] > t

(* The table after is the table before without some rows that were not    *)
(* live at time t: no live row is gone and no surviving row has changed    *)
OnlyDeadRowsGone(before, after, t) ==
    /\ DOMAIN after \subseteq DOMAIN before
    /\ \A k \in DOMAIN before : LiveAt(before[k], t) => k \in DOMAIN after
    /\ \A k \in DOMAIN after : after[k] = before[k]

(* C31: a run of _cleanup_expired at time now deletes no session and no    *)
(* cache row whose expires_at is none or later than now, so every row a    *)
(* get at that instant returns survives; it changes no field of a          *)
(* surviving row and no settings or users row.                             *)
C31_SweepKeepsLiveAndDurable ==
    [][ret'.op = "_cleanup_expired" =>
          /\ OnlyDeadRowsGone(sessions, sessions', now)
          /\ OnlyDeadRowsGone(cache, cache', now)
          /\ \A sid \in DOMAIN sessions :
                SessionFound(sessions, sid, now) =>
                   GetSessionResult(sessions', sid, now) = GetSessionResult(sessions, sid, now)
          /\ \A key \in DOMAIN cache :
                CacheFound(cache, key, now) =>
                   GetCacheResult(cache', key, now) = GetCacheResult(cache, key, now)
          /\ settings' = settings
          /\ users' = users]_vars

(* C31 witness: a sweep has removed one session and one cache row, and the *)
(* live session, the live cache row, the setting and the user are there    *)
C31_Witness ==
    /\ workload = "reclaim"
    /\ ret.op = "_cleanup_expired"
    /\ ret.data = <<"deleted", 1, 1>>
    /\ DOMAIN sessions = {"s2"}
    /\ SessionFound(sessions, "s2", now)
    /\ DOMAIN cache = {<<"b">>}
    /\ CacheFound(cache, <<"b">>, now)
    /\ DOMAIN settings = {"theme"}
    /\ DOMAIN users = {"u1"}

(* C32: whenever a Database operation has returned, on success, miss or    *)
(* failure, no thread's connection holds the write lock in an open         *)
(* transaction, so a failed operation blocks no other thread's write after *)
(* it has returned.                                                        *)
C32_NoOpenTransaction == writer = None

(* C33: however get_database and close_database calls of several threads   *)
(* interleave, get_database never returns none and close_database never    *)
(* raises.                                                                 *)
C33_AccessorsSafeUnderShutdown ==
    /\ ret.op = "get_database" => ret.val # PyNone
    /\ ret.op = "close_database" => ret.val = PyNone

(* The stop event of manager m is set                                      *)
StopSet(m) == m \in 1..Len(managers) /\ managers[m].stop

(* The cleanup thread of manager m has ended                               *)
Exited(m) == m \in 1..Len(managers) /\ managers[m].thread = "exited"

(* The cleanup thread of manager m begins a pass in this step              *)
BeginsPass(m) ==
    /\ m \in 1..Len(managers)
    /\ managers[m].thread = "waiting"
    /\ managers'[m].thread = "ticking"

(* C34: once shutdown has set the stop event of a manager, its cleanup     *)
(* thread begins no new pass, so it completes at most the pass it was in,  *)
(* and under fair scheduling it ends.                                      *)
C34_CooperativeStop ==
    /\ [][\A m \in 1..MaxManagers : StopSet(m) => ~BeginsPass(m)]_vars
    /\ \A m \in 1..MaxManagers : StopSet(m) ~> Exited(m)

(* C34 witness: the cleanup thread has made a pass, shutdown has set the   *)
(* stop event, and the thread has ended without beginning another pass     *)
C34_Witness ==
    /\ ret.op = "sweeper_stops"
    /\ Exited(ret.key)
    /\ StopSet(ret.key)
    /\ now = managers[ret.key].due - CleanupInterval
    /\ now > 0

(* The cleanup thread of manager m makes a pass that fails in this step    *)
FailsPass(m) ==
    /\ m \in 1..Len(managers)
    /\ managers[m].thread = "ticking"
    /\ managers'[m] # managers[m]
    /\ ret'.op = "_cleanup_expired"
    /\ ret'.fault

(* The cleanup thread of manager m waits for a pass that is due within     *)
(* the time the model covers                                               *)
AwaitsPass(m) ==
    /\ m \in 1..Len(managers)
    /\ managers[m].thread = "waiting"
    /\ managers[m].due <= 2 * CleanupInterval

(* The cleanup thread of manager m is inside a pass                        *)
InPass(m) == m \in 1..Len(managers) /\ managers[m].thread = "ticking"

(* C35: a pass that fails with a storage error leaves the cleanup thread   *)
(* alive and in its next wait, one interval long, and the tables as they   *)
(* were; and as long as the stop event is not set, a thread that waits     *)
(* makes its next pass when the wait is over.                              *)
C35_FailedPassDoesNotStopSweeper ==
    /\ [][\A m \in 1..MaxManagers :
             FailsPass(m) =>
                /\ managers'[m].thread = "waiting"
                /\ managers'[m].due = now + CleanupInterval
                /\ managers'[m].stop = managers[m].stop
                /\ <<sessions', cache', settings'>> = <<sessions, cache, settings>>]_vars
    /\ \A m \in 1..MaxManagers : AwaitsPass(m) ~> (InPass(m) \/ StopSet(m))

(* C35 witness: a pass has failed, and the cleanup thread is in its next   *)
(* wait with the stop event clear                                          *)
C35_Witness ==
    /\ ret.op = "_cleanup_expired"
    /\ ret.fault
    /\ now = 2 * CleanupInterval
    /\ \E m \in 1..Len(managers) :
          /\ managers[m].thread = "waiting"
          /\ managers[m].due = now + CleanupInterval
          /\ ~managers[m].stop

(* The step is a call of the manager's get_session, update_session or      *)
(* extend_session                                                          *)
ManagerAccess == ret'.op \in {"mgr_get_session", "update_session", "extend_session"}

(* C36: no get_session, update_session or extend_session of the manager    *)
(* changes the user_id of a session row, so get_user_sessions lists the    *)
(* session for the same user after the call as before it.                  *)
C36_OwnershipIsStable ==
    [][ManagerAccess =>
          \A sid \in DOMAIN sessions \cap DOMAIN sessions' :
             /\ sessions'[sid].user_id = sessions[sid].user_id
             /\ \A uid \in {"", "u1"} :
                   sid \in UserSessionIds(sessions, uid, now)
                      <=> sid \in UserSessionIds(sessions', uid, now)]_vars

(* The step is a call of update_session                                    *)
UpdateStep == ret'.op = "update_session"

(* The keys of a dict                                                      *)
KeysOf(d) == {d[2][i][1] : i \in 1..Len(d[2])}

(* The dict stored in a session row                                        *)
StoredData(tbl, sid) == json_loads(tbl[sid].data)

(* stored is old merged with new, new's keys winning, on every key outside *)
(* the set ignoring                                                        *)
MergeOf(old, new, stored, ignoring) ==
    /\ KeysOf(stored) \ ignoring = (KeysOf(old) \cup KeysOf(new)) \ ignoring
    /\ \A k \in KeysOf(stored) \ ignoring :
          DictGet(stored, k, PyNone)
             = IF k \in KeysOf(new) THEN DictGet(new, k, PyNone)
                                    ELSE DictGet(old, k, PyNone)

(* C37 as stated: update_session on an absent or expired id returns false  *)
(* and creates no row; on a live session it stores the previously stored   *)
(* data merged with data, data's keys winning, resets expires_at to        *)
(* now + session_timeout and returns true.                                 *)
C37_UpdateStoresMerge ==
    [][UpdateStep =>
          LET sid == ret'.key
              data == json_loads(json_dumps(ret'.data))
          IN IF SessionFound(sessions, sid, now)
             THEN /\ ret'.val = PyTrue
                  /\ sid \in DOMAIN sessions'
                  /\ MergeOf(StoredData(sessions, sid), data,
                             StoredData(sessions', sid), {})
                  /\ sessions'[sid].expires_at = Some(now + SessionTimeout)
             ELSE /\ ret'.val = PyFalse
                  /\ DOMAIN sessions' = DOMAIN sessions]_vars

(* C37, amended: update_session on an absent or expired id returns false   *)
(* and leaves the table as it is. On a live session it either returns true *)
(* and has stored the previous data merged with data (data's keys winning) *)
(* except for the key "last_activity", which it sets to the time of the    *)
(* call, with expires_at reset to now + session_timeout; or it returns     *)
(* false (the read or the write failed, or the stored data is the empty    *)
(* dict) and the row keeps its payload and its expires_at. A live session  *)
(* whose stored data is empty always gets false.                           *)
C37_UpdateStoresStampedMerge ==
    [][UpdateStep =>
          LET sid == ret'.key
              data == json_loads(json_dumps(ret'.data))
              stamp == PyStr("last_activity")
          IN IF SessionFound(sessions, sid, now)
             THEN /\ sid \in DOMAIN sessions'
                  /\ \/ /\ ret'.val = PyTrue
                        /\ MergeOf(StoredData(sessions, sid), data,
                                   StoredData(sessions', sid), {stamp})
                        /\ DictGet(StoredData(sessions', sid), stamp, PyNone)
                              = IsoFormat(now)
                        /\ sessions'[sid].expires_at = Some(now + SessionTimeout)
                     \/ /\ ret'.val = PyFalse
                        /\ sessions'[sid].data = sessions[sid].data
                        /\ sessions'[sid].expires_at = sessions[sid].expires_at
                  /\ ~Truthy(StoredData(sessions, sid)) => ret'.val = PyFalse
             ELSE /\ ret'.val = PyFalse
                  /\ sessions' = sessions]_vars

(* An update_session has returned true on a session whose key "a" it       *)
(* replaced by the new value, and the stored data carries the stamp        *)
C37_Witness ==
    /\ ret.op = "update_session"
    /\ ret.val = PyTrue
    /\ ret.key \in DOMAIN sessions
    /\ DictGet(StoredData(sessions, ret.key), PyStr("a"), PyNone)
          = PyList(<<PyInt(1), PyInt(2)>>)
    /\ DictGet(StoredData(sessions, ret.key), PyStr("last_activity"), PyNone)
          = IsoFormat(now)
    /\ now > 0

(* C38: created_at records the first write. When save_session or set_cache *)
(* is called for an id or key whose row already exists, the row keeps the  *)
(* created_at of its first write.                                          *)
C38_CreatedAtKeepsFirstWrite ==
    [][/\ (ret'.op = "save_session" /\ ret'.key \in DOMAIN sessions
              => sessions'[ret'.key].created_at = sessions[ret'.key].created_at)
       /\ (ret'.op = "set_cache" /\ ret'.key \in DOMAIN cache
              => cache'[ret'.key].created_at = cache[ret'.key].created_at)]_vars

(* Every row of the table other than the row of key is as it was, and no   *)
(* row has come or gone                                                    *)
OthersUntouched(tbl, tblAfter, key) ==
    /\ DOMAIN tblAfter = DOMAIN tbl
    /\ \A k \in DOMAIN tbl \ {key} : tblAfter[k] = tbl[k]

(* C39: a Database.get_session or get_cache that misses (row absent or     *)
(* expired, or the storage fails) modifies no row at all; one that hits    *)
(* modifies only that row's updated_at (session) or access_count and       *)
(* last_accessed (cache): its payload, user_id, created_at and expires_at  *)
(* and every other row of every table stay as they were.                   *)
C39_ReadsFrame ==
    [][/\ ret'.op = "get_session" =>
             /\ cache' = cache /\ settings' = settings /\ users' = users
             /\ OthersUntouched(sessions, sessions', ret'.key)
             /\ IF SessionFound(sessions, ret'.key, now) /\ ~ret'.fault
                THEN sessions'[ret'.key]
                        = [sessions[ret'.key] EXCEPT
                              !.updated_at = sessions'[ret'.key].updated_at]
                ELSE sessions' = sessions
       /\ ret'.op = "get_cache" =>
             /\ sessions' = sessions /\ settings' = settings /\ users' = users
             /\ OthersUntouched(cache, cache', ret'.key)
             /\ IF CacheFound(cache, ret'.key, now) /\ ~ret'.fault
                THEN cache'[ret'.key]
                        = [cache[ret'.key] EXCEPT
                              !.access_count = cache'[ret'.key].access_count,
                              !.last_accessed = cache'[ret'.key].last_accessed]
                ELSE cache' = cache]_vars

(* A get_session has hit a row written earlier, beside another row: the    *)
(* row's updated_at is the time of the read, later than its created_at     *)
C39_Witness ==
    /\ ret.op = "get_session"
    /\ ret.val # PyNone
    /\ ret.key \in DOMAIN sessions
    /\ sessions[ret.key].updated_at = now
    /\ sessions[ret.key].created_at < now
    /\ DOMAIN sessions # {ret.key}

(* C40: cleanup reports what it removed: the sessions_cleaned value of     *)
(* cleanup_expired_data, which is what cleanup_all_sessions returned, is   *)
(* the number of expired session rows the call removed.                    *)
C40_CleanupReportsRemovedSessions ==
    [][ret'.op = "cleanup_expired_data" =>
          ret'.val.sessions_cleaned
             = PyInt(Cardinality(DOMAIN sessions \ DOMAIN sessions'))]_vars

====
